---- MODULE Spec2Model ----
(***************************************************************************)
(* Verification model of the consensus core of go-lachesis: the poset      *)
(* engine's frame decision and epoch sealing (poset package), the gossip   *)
(* service's event ingest under engineMu, and the atropos election.        *)
(***************************************************************************)
EXTENDS Integers, Sequences, FiniteSets, TLC

(***************************************************************************)
(* Bounds of the model.                                                    *)
(***************************************************************************)
NumNodes == 3
MaxStake == 2
EpochLen == 2
MaxEpoch == 3
NumStateHashes == 2

(***************************************************************************)
(* Program constants.                                                      *)
(***************************************************************************)
firstFrame == 1
firstEpoch == 1
ValidatorsMax == 30
genesisTestTime == 1

Nodes == 1..NumNodes
StateHashes == 0..(NumStateHashes - 1)

(***************************************************************************)
(* Events.  The engine is exercised on the layered DAG in which every      *)
(* validator creates one event per layer, the parents of an event being    *)
(* the events of the layer below (the self-parent first).  An event of     *)
(* layer s+1 has, for a root of layer s, only two validators between them, *)
(* which is no quorum; an event of layer s+2 has all of them.  So the      *)
(* roots are the events of the odd layers: frame f is layer 2f-1.  An      *)
(* event is named by its hash, an integer; ZeroEvent is hash.Event{}.      *)
(***************************************************************************)
MaxFrame == EpochLen + 2
MaxSeq == 2 * MaxFrame - 1
ZeroEvent == 0
EventOf(c, s) == (s - 1) * NumNodes + c
Events == 1..(MaxSeq * NumNodes)
EventSeq(e) == ((e - 1) \div NumNodes) + 1
EventCreator(e) == ((e - 1) % NumNodes) + 1
EventParents(e) == IF EventSeq(e) = 1 THEN {} ELSE {EventOf(c, EventSeq(e) - 1) : c \in Nodes}
EventFrame(e) == (EventSeq(e) + 1) \div 2
IsRoot(e) == EventSeq(e) % 2 = 1
RootOf(c, frame) == EventOf(c, 2 * frame - 1)
RootsOf(frame) == {e \in Events : IsRoot(e) /\ EventFrame(e) = frame}
\* the events dfsSubgraph walks from e: e and its ancestors
EventPast(e) == {x \in Events : x = e \/ EventSeq(x) < EventSeq(e)}
Header(e) == [Hash |-> e, Creator |-> EventCreator(e), Seq |-> EventSeq(e)]
NoHeader == [Hash |-> ZeroEvent, Creator |-> 0, Seq |-> 0]
\* headersByCreator: an absent key reads as NoHeader; a nil map has no key.
NoHeaders == [c \in Nodes |-> NoHeader]

(***************************************************************************)
(* pos.Validators: a map from validator to stake.  Set(v, 0) deletes the   *)
(* key and Get of an absent key is 0, so a map is the function of its Get. *)
(***************************************************************************)
ValidatorMaps == [Nodes -> 0..MaxStake]
ValidatorsLen(validators) == Cardinality({v \in Nodes : validators[v] # 0})

RECURSIVE SumStake(_, _)
SumStake(validators, S) ==
    IF S = {} THEN 0
    ELSE LET v == CHOOSE x \in S : TRUE
         IN validators[v] + SumStake(validators, S \ {v})
TotalStake(validators) == SumStake(validators, DOMAIN validators)

\* position of v in the order by stake (descending), then address (ascending)
Rank(validators, v) ==
    Cardinality({w \in DOMAIN validators : /\ validators[w] # 0
                               /\ \/ validators[w] > validators[v]
                                  \/ validators[w] = validators[v] /\ w < v})
Top(validators) ==
    [v \in Nodes |-> IF validators[v] # 0 /\ Rank(validators, v) < ValidatorsMax
                     THEN validators[v] ELSE 0]
Copy(validators) == [v \in Nodes |-> validators[v]]

VARIABLES
    epochState,   \* EpochN, PrevEpoch, Validators
    checkpoint,   \* LastDecidedFrame, LastBlockN, LastAtropos, StateHash, NextValidators
    election,     \* frameToDecide, members, votes, decidedRoots
    vecClock,     \* the validators and epoch table the vector clock was last reset to
    store,        \* persisted epoch state and checkpoint, and the epoch-scoped tables
    crashed,      \* the process was ended by Log.Crit
    decided,      \* history: the (frame, atropos) pairs handed to onFrameDecided
    applied,      \* history: the calls of the applyBlock callback
    seals,        \* history: the atroposes handed to onNewEpoch
    engineMu,     \* gossip: the holder of each mutex
    pc,           \* gossip: where each thread stands in its ingest of an event
    cur,          \* gossip: the event each thread is connecting
    gstore,       \* gossip: the store's events, heads, last events and last commit
    done,         \* gossip: the service was stopped
    replicas,     \* election: the engines that are fed the events of one DAG
    dag,          \* election: the index of the DAG: frames, roots, forkless cause
    epochMu,      \* epoch access: the thread that holds Poset.epochMu
    sealer,       \* epoch access: where the engine thread stands in onNewEpoch
    reader,       \* epoch access: where the reading thread stands in GetEpochValidators
    gas,          \* gas power: the poset's gas configuration, an event, and the results
    spill,        \* block assembly: a block, the stored events, and the spilled block
    blk,          \* block confirmation: the confirmed events and what the callbacks made of them
    kv,           \* key-value store: the map, its lock, a batch, and what a reader got
    inter,        \* events of package inter: their fields, hashes, signatures, encodings
    unit          \* a function called on its own: what it is given and what it returns

posetVars == <<epochState, checkpoint, election, vecClock, store, crashed, decided, applied, seals>>
gossipVars == <<engineMu, pc, cur, gstore, done>>
electionVars == <<replicas, dag>>
epochVars == <<epochMu, sealer, reader>>
unitVars == <<spill, blk, kv, inter, unit>>
vars == <<posetVars, gossipVars, electionVars, epochVars, gas, unitVars>>

(***************************************************************************)
(* The poset as one value, so that its methods are operators from the      *)
(* state before a call to the state after it.                              *)
(***************************************************************************)
Poset ==
    [epochState |-> epochState, checkpoint |-> checkpoint, election |-> election,
     vecClock |-> vecClock, store |-> store, crashed |-> crashed,
     applied |-> applied, seals |-> seals]

\* Election.Reset: erase the election state, prepare for a new frame
Reset(members, frameToDecide) ==
    [frameToDecide |-> frameToDecide, members |-> members, votes |-> {}, decidedRoots |-> {}]

\* Election.notDecidedRoots, with its sanity check
notDecidedRoots(el) ==
    {m \in DOMAIN el.members : el.members[m] # 0 /\ m \notin {d[1] : d \in el.decidedRoots}}

\* Log.Crit writes the record and ends the process (os.Exit(1))
Crit(p) == [p EXCEPT !.crashed = TRUE]

\* Store.RecreateEpochDb: the epoch-scoped tables are dropped and opened empty
EmptyEpochDb(epoch) ==
    [Epoch |-> epoch,
     ConfirmedOn |-> [e \in Events |-> 0],
     FrameInfo |-> [f \in 1..EpochLen |-> 0]]
RecreateEpochDb(p, epoch) == [p EXCEPT !.store.epochDb = EmptyEpochDb(epoch)]

saveCheckpoint(p) == [p EXCEPT !.store.Checkpoint = p.checkpoint]

\* Poset.frameConsensusTime: the consensus time of a decided frame of the
\* epoch; frame 0 stands for the end of the previous epoch
frameConsensusTime(p, frame) ==
    IF frame = 0 THEN p.epochState.PrevEpoch.Time
    ELSE p.store.epochDb.FrameInfo[frame]

\* a setEpochValidators that moves to the new epoch but keeps the validators
setEpochValidators_EpochOnly(p, validators, epoch) ==
    [p EXCEPT !.epochState.EpochN = epoch]

\* Poset.setEpochValidators (under epochMu)
setEpochValidators(p, validators, epoch) ==
    [p EXCEPT !.epochState.Validators = validators, !.epochState.EpochN = epoch]

\* Poset.GetEpochValidators (under epochMu)
GetEpochValidators(p) == <<Copy(p.epochState.Validators), p.epochState.EpochN>>

(***************************************************************************)
(* Poset.confirmBlockEvents.  dfsSubgraph hands the atropos to the         *)
(* callback first.  An event already confirmed ends its branch of the      *)
(* walk; any other event is stamped with the frame and the callback then   *)
(* calls Log.Crit, which ends the process: no event is appended to         *)
(* blockEvents and no header is recorded in lastHeaders.                   *)
(***************************************************************************)
confirmBlockEvents(p, frame, atropos) ==
    LET lastHeaders == NoHeaders
        blockEvents == << >>
        decidedFrame == p.store.epochDb.ConfirmedOn[atropos]
    IN  IF decidedFrame # 0
        THEN [p |-> p, blockEvents |-> blockEvents, lastHeaders |-> lastHeaders]
        ELSE [p |-> Crit([p EXCEPT !.store.epochDb.ConfirmedOn[atropos] = frame]),
              blockEvents |-> blockEvents, lastHeaders |-> lastHeaders]

\* the ordered events of a block and the frame's consensus time
RECURSIVE SortedSeq(_)
SortedSeq(S) ==
    IF S = {} THEN << >>
    ELSE LET m == CHOOSE x \in S : \A y \in S : x <= y
         IN <<m>> \o SortedSeq(S \ {m})
Range(seq) == {seq[i] : i \in 1..Len(seq)}
fareOrdering(p, frame, atropos, blockEvents) ==
    [ordered |-> SortedSeq({h.Hash : h \in Range(blockEvents)}),
     LastConsensusTime |-> frameConsensusTime(p, frame - 1) + 1]

\* inter.NewBlock
NewBlock(index, time, events, prevAtropos) ==
    [Index |-> index, Time |-> time, Events |-> events, PrevAtropos |-> prevAtropos]

\* an onFrameDecided that installs the staged validators at once
onFrameDecided_InstallsValidators(p, frame, atropos, applyOut) ==
    LET p1 == [p EXCEPT !.election = Reset(p.epochState.Validators, frame + 1),
                        !.checkpoint.LastDecidedFrame = frame,
                        !.epochState.Validators = p.checkpoint.NextValidators]
        c  == confirmBlockEvents(p1, frame, atropos)
    IN  [p |-> Crit(c.p), lastHeaders |-> c.lastHeaders]

\* an onFrameDecided that moves the last decided frame past the frame
onFrameDecided_SkipsFrame(p, frame, atropos, applyOut) ==
    LET p1 == [p EXCEPT !.election = Reset(p.epochState.Validators, frame + 2),
                        !.checkpoint.LastDecidedFrame = frame + 1]
        c  == confirmBlockEvents(p1, frame, atropos)
    IN  [p |-> Crit(c.p), lastHeaders |-> c.lastHeaders]

(***************************************************************************)
(* Poset.onFrameDecided.  applyOut is what the applyBlock callback returns *)
(* for the block: a state hash and a validators map.                       *)
(***************************************************************************)
onFrameDecided(p, frame, atropos, applyOut) ==
    LET p1 == [p EXCEPT !.election = Reset(p.epochState.Validators, frame + 1),
                        !.checkpoint.LastDecidedFrame = frame]
        c  == confirmBlockEvents(p1, frame, atropos)
    IN  IF c.p.crashed
        THEN [p |-> c.p, lastHeaders |-> c.lastHeaders]
        ELSE IF Len(c.blockEvents) = 0
        THEN [p |-> Crit(c.p), lastHeaders |-> c.lastHeaders]
        ELSE
        LET fo == fareOrdering(c.p, frame, atropos, c.blockEvents)
            n  == c.p.checkpoint.LastBlockN + 1
            block == NewBlock(n, fo.LastConsensusTime, fo.ordered, c.p.checkpoint.LastAtropos)
            p2 == [c.p EXCEPT !.checkpoint.LastBlockN = n,
                              !.store.epochDb.FrameInfo[frame] = fo.LastConsensusTime,
                              !.applied = Append(c.p.applied,
                                    [Block |-> block,
                                     StateHashIn |-> c.p.checkpoint.StateHash,
                                     ValidatorsIn |-> c.p.checkpoint.NextValidators,
                                     StateHashOut |-> applyOut.StateHash,
                                     ValidatorsOut |-> applyOut.Validators]),
                              !.checkpoint.StateHash = applyOut.StateHash,
                              !.checkpoint.NextValidators = applyOut.Validators]
            p3 == [p2 EXCEPT !.checkpoint.LastAtropos = atropos,
                             !.checkpoint.NextValidators = Top(p2.checkpoint.NextValidators)]
        IN  [p |-> saveCheckpoint(p3), lastHeaders |-> c.lastHeaders]

isEpochSealed(p) == p.checkpoint.LastDecidedFrame >= EpochLen

\* Service.applyBlock: the seal flag of the block of a decided frame
sealEpoch(decidedFrame) == decidedFrame = EpochLen

\* a reset of the engine that leaves the election
resetEngine_KeepsElection(p) ==
    [p EXCEPT !.vecClock = [validators |-> p.epochState.Validators,
                            table |-> p.store.epochDb.Epoch]]

\* the reset of the engine that ends onNewEpoch
resetEngine(p) ==
    [p EXCEPT !.vecClock = [validators |-> p.epochState.Validators,
                            table |-> p.store.epochDb.Epoch],
              !.election = Reset(p.epochState.Validators, firstFrame)]

\* an onNewEpoch that moves to the new epoch with the validators of the old one
onNewEpoch_NoInstall(p, atropos, lastHeaders) ==
    LET prev == [Time |-> frameConsensusTime(p, p.checkpoint.LastDecidedFrame),
                 Epoch |-> p.epochState.EpochN,
                 LastAtropos |-> atropos,
                 StateHash |-> p.checkpoint.StateHash,
                 LastHeaders |-> lastHeaders]
        p1 == [p EXCEPT !.epochState.PrevEpoch = prev, !.seals = Append(p.seals, atropos)]
        p2 == setEpochValidators(p1, p1.epochState.Validators, p1.epochState.EpochN + 1)
        p3 == [p2 EXCEPT !.checkpoint.NextValidators = Copy(p2.epochState.Validators),
                         !.checkpoint.LastDecidedFrame = 0]
        p4 == saveCheckpoint([p3 EXCEPT !.store.Epoch = p3.epochState])
    IN  resetEngine(RecreateEpochDb(p4, p4.epochState.EpochN))

\* an onNewEpoch that resets LastDecidedFrame before it reads the frame's time
onNewEpoch_TimeAfterReset(p, atropos, lastHeaders) ==
    LET p0 == [p EXCEPT !.checkpoint.LastDecidedFrame = 0]
        prev == [Time |-> frameConsensusTime(p0, p0.checkpoint.LastDecidedFrame),
                 Epoch |-> p.epochState.EpochN,
                 LastAtropos |-> atropos,
                 StateHash |-> p.checkpoint.StateHash,
                 LastHeaders |-> lastHeaders]
        p1 == [p0 EXCEPT !.epochState.PrevEpoch = prev, !.seals = Append(p.seals, atropos)]
        p2 == setEpochValidators(p1, Top(p1.checkpoint.NextValidators), p1.epochState.EpochN + 1)
        p3 == [p2 EXCEPT !.checkpoint.NextValidators = Copy(p2.epochState.Validators)]
        p4 == saveCheckpoint([p3 EXCEPT !.store.Epoch = p3.epochState])
    IN  resetEngine(RecreateEpochDb(p4, p4.epochState.EpochN))

\* an onNewEpoch that takes the atropos of the seal for the checkpoint's
onNewEpoch_MovesLastAtropos(p, atropos, lastHeaders) ==
    LET prev == [Time |-> frameConsensusTime(p, p.checkpoint.LastDecidedFrame),
                 Epoch |-> p.epochState.EpochN,
                 LastAtropos |-> atropos,
                 StateHash |-> p.checkpoint.StateHash,
                 LastHeaders |-> lastHeaders]
        p1 == [p EXCEPT !.epochState.PrevEpoch = prev, !.seals = Append(p.seals, atropos)]
        p2 == setEpochValidators(p1, Top(p1.checkpoint.NextValidators), p1.epochState.EpochN + 1)
        p3 == [p2 EXCEPT !.checkpoint.NextValidators = Copy(p2.epochState.Validators),
                         !.checkpoint.LastAtropos = atropos,
                         !.checkpoint.LastDecidedFrame = 0]
        p4 == saveCheckpoint([p3 EXCEPT !.store.Epoch = p3.epochState])
    IN  resetEngine(RecreateEpochDb(p4, p4.epochState.EpochN))

(***************************************************************************)
(* Poset.onNewEpoch                                                        *)
(***************************************************************************)
onNewEpoch(p, atropos, lastHeaders) ==
    LET prev == [Time |-> frameConsensusTime(p, p.checkpoint.LastDecidedFrame),
                 Epoch |-> p.epochState.EpochN,
                 LastAtropos |-> atropos,
                 StateHash |-> p.checkpoint.StateHash,
                 LastHeaders |-> lastHeaders]
        p1 == [p EXCEPT !.epochState.PrevEpoch = prev, !.seals = Append(p.seals, atropos)]
        p2 == setEpochValidators(p1, Top(p1.checkpoint.NextValidators), p1.epochState.EpochN + 1)
        p3 == [p2 EXCEPT !.checkpoint.NextValidators = Copy(p2.epochState.Validators),
                         !.checkpoint.LastDecidedFrame = 0]
        p4 == saveCheckpoint([p3 EXCEPT !.store.Epoch = p3.epochState])
    IN  resetEngine(RecreateEpochDb(p4, p4.epochState.EpochN))

\* Poset.tryToSealEpoch
tryToSealEpoch(p, atropos, lastHeaders) ==
    IF ~isEpochSealed(p)
    THEN [p |-> p, sealed |-> FALSE]
    ELSE [p |-> onNewEpoch(p, atropos, lastHeaders), sealed |-> TRUE]

(***************************************************************************)
(* The state the poset is bootstrapped from: the epoch state and the       *)
(* checkpoint persisted in the store, from the genesis (epoch firstEpoch,  *)
(* no decided frame, block 0) to any epoch below MaxEpoch with k decided   *)
(* frames, k < EpochLen, whose atroposes were the roots of validator 1.    *)
(***************************************************************************)
InitValidators == {[v \in Nodes |-> 1], [v \in Nodes |-> IF v = 1 THEN MaxStake ELSE 1]}
InitNextValidators == {m \in ValidatorMaps : ValidatorsLen(m) > 0 /\ Top(m) = m}

\* the ConfirmedOn table after frames 1..k were decided
ConfirmedBy(k) ==
    [e \in Events |->
        LET f == IF EventCreator(e) = 1 /\ IsRoot(e)
                 THEN EventFrame(e) ELSE EventFrame(e) + 1
        IN  IF f <= k THEN f ELSE 0]

InitEpochState(n, validators) ==
    [EpochN |-> n,
     PrevEpoch |-> [Time |-> genesisTestTime + (n - firstEpoch) * EpochLen,
                    Epoch |-> n - 1,
                    LastAtropos |-> ZeroEvent,
                    StateHash |-> 0,
                    LastHeaders |-> NoHeaders],
     Validators |-> validators]

InitEpochDb(es, k) ==
    [Epoch |-> es.EpochN,
     ConfirmedOn |-> ConfirmedBy(k),
     FrameInfo |-> [f \in 1..EpochLen |-> IF f <= k THEN es.PrevEpoch.Time + f ELSE 0]]

\* Store.ApplyGenesis: the genesis is stored as block 0
GenesisBlock == NewBlock(0, genesisTestTime, <<ZeroEvent>>, ZeroEvent)

\* the election of a frame as the engine may be started with it: reset, or
\* with the votes of a root of the next frame cached, one of them a vote
\* that decided its member's root
ElectionsOf(validators, frameToDecide) ==
    LET vote(m) == [decided |-> m = 1, yes |-> TRUE, seenRoot |-> RootOf(m, frameToDecide)]
    IN  {Reset(validators, frameToDecide),
         [Reset(validators, frameToDecide) EXCEPT
            !.votes = {[fromRoot |-> RootOf(1, frameToDecide + 1), forMember |-> m,
                        vote |-> vote(m)] : m \in Nodes},
            !.decidedRoots = {<<1, vote(1)>>}]}

PosetBoot(n, k, validators, next, sh, el) ==
    /\ epochState = InitEpochState(n, validators)
    /\ checkpoint = [LastDecidedFrame |-> k,
                     LastBlockN |-> GenesisBlock.Index + (n - firstEpoch) * EpochLen + k,
                     LastAtropos |-> IF k = 0 THEN ZeroEvent ELSE RootOf(1, k),
                     StateHash |-> sh,
                     NextValidators |-> next]
    /\ election = el
    /\ vecClock = [validators |-> validators, table |-> n]
    /\ store = [Epoch |-> epochState, Checkpoint |-> checkpoint,
                epochDb |-> InitEpochDb(epochState, k)]
    /\ crashed = FALSE
    /\ decided = << >>
    /\ applied = << >>
    /\ seals = << >>

(***************************************************************************)
(* The election.  It is exercised on a DAG of four validators of equal     *)
(* stake, written as for ASCIIschemeToDAG:                                 *)
(*                                                                         *)
(*    a1  x1  b1  c1  d1     a1 and x1 are a fork of validator 1           *)
(*    a2      b2  c2  d2     d2 has x1 for parent, the others a1           *)
(*    a3      b3  c3  d3     the roots of frame 2; d3 sees the fork        *)
(*    a4      b4  c4  d4                                                   *)
(*    a5      b5  c5  d5     a5 and d5 are the roots of frame 3            *)
(*                                                                         *)
(* An event is named by its hash: a1..d1 are 1..4, x1 is 5, a2..d2 are     *)
(* 6..9, and so on to d5, which is 21.                                     *)
(***************************************************************************)
DagValidators == 1..4
DagStake == [v \in DagValidators |-> 1]
DagCreator == <<1, 2, 3, 4, 1,  1, 2, 3, 4,  1, 2, 3, 4,  1, 2, 3, 4,  1, 2, 3, 4>>
DagParents ==
    << {}, {}, {}, {}, {},
       {1, 2, 3, 4}, {2, 1, 3, 4}, {3, 1, 2, 4}, {4, 5, 2, 3},
       {6, 7, 8}, {7, 6, 8}, {8, 6, 7}, {9, 7, 8},
       {10, 11, 12}, {11, 10, 12}, {12, 10, 11}, {13, 11, 12},
       {14, 15, 16}, {15, 17}, {16, 17}, {17, 19, 20} >>
DagEvents == 1..Len(DagCreator)

\* the events an event observes: itself and its ancestors (the parents of
\* an event have lower names than the event)
RECURSIVE PastUpTo(_)
PastUpTo(e) ==
    IF e = 0 THEN << >>
    ELSE LET below == PastUpTo(e - 1)
         IN  Append(below, {e} \cup UNION {below[p] : p \in DagParents[e]})
DagPast == PastUpTo(Len(DagCreator))

\* stake above two thirds of the total
Quorum(validators) == (2 * TotalStake(validators)) \div 3 + 1

\* the fork flag of HB_a[v]: a observes two events of v, neither of which
\* observes the other
ForkSeen(a, v) ==
    \E x \in DagPast[a], y \in DagPast[a] :
        /\ DagCreator[x] = v /\ DagCreator[y] = v
        /\ x \notin DagPast[y] /\ y \notin DagPast[x]

\* HB_a[v] reaches LA_b[v]: an event of v that has b in its past is in the
\* past of a
SeesThrough(a, b, v) ==
    \E x \in DagPast[a] : DagCreator[x] = v /\ b \in DagPast[x]

\* vecClock.ForklessCause: the validators through which a sees b, forked
\* ones left out, hold a quorum, and a sees no fork of the creator of b
Causes(a, b) ==
    /\ ~ForkSeen(a, DagCreator[b])
    /\ SumStake(DagStake, {v \in DagValidators :
            /\ SeesThrough(a, b, v)
            /\ ~ForkSeen(a, v)}) >= Quorum(DagStake)
RECURSIVE CausedUpTo(_, _)
CausedUpTo(a, b) ==
    IF b = 0 THEN << >> ELSE Append(CausedUpTo(a, b - 1), Causes(a, b))
RECURSIVE CausesUpTo(_)
CausesUpTo(a) ==
    IF a = 0 THEN << >>
    ELSE Append(CausesUpTo(a - 1), CausedUpTo(a, Len(DagCreator)))
DagForklessCause == CausesUpTo(Len(DagCreator))

\* the frame of an event and whether it is a root, given those of the
\* events below it
FrameInfo(below, e) ==
    IF DagParents[e] = {} THEN [frame |-> firstFrame, isRoot |-> TRUE]
    ELSE LET seenRoots(f) ==
                 {r \in DagPast[e] \ {e} :
                     /\ below[r].isRoot /\ below[r].frame = f
                     /\ DagForklessCause[e][r]}
             advance(f) ==
                 IF SumStake(DagStake, {DagCreator[r] : r \in seenRoots(f)}) >= Quorum(DagStake)
                 THEN 1 ELSE 0
             parentFrames == {below[p].frame : p \in DagParents[e]}
             candidates == {f + advance(f) : f \in parentFrames}
             maxParentFrame == CHOOSE f \in parentFrames : \A g \in parentFrames : g <= f
             frame == CHOOSE f \in candidates : \A g \in candidates : g <= f
         IN  [frame |-> frame, isRoot |-> frame > maxParentFrame]
RECURSIVE FramesUpTo(_)
FramesUpTo(e) ==
    IF e = 0 THEN << >>
    ELSE LET below == FramesUpTo(e - 1)
         IN  Append(below, FrameInfo(below, e))
DagFrameInfo == FramesUpTo(Len(DagCreator))

\* the index of the DAG that the engines consult
DagInit == dag = [info |-> DagFrameInfo, cause |-> DagForklessCause]
DagFrames == [e \in DagEvents |-> dag.info[e].frame]
DagRoots == {e \in DagEvents : dag.info[e].isRoot}
ForklessCause(a, b) == dag.cause[a][b]

\* Store.ForEachRootFrom and the getRootsFn of the election: the roots of a
\* slot among the events the engine has connected
GetRoots(events, frame, creator) ==
    {r \in events \cap DagRoots : DagFrames[r] = frame /\ DagCreator[r] = creator}

\* the order in which an iteration visits the keys of a map or the entries
\* of a table: ascending or descending
IterationOrders == {1, -1}
FirstOf(S, order) == CHOOSE x \in S : \A y \in S : order * x <= order * y

\* a rootObservesRoot that returns the root it visits first
rootObservesRoot_FirstVisited(events, a, bCreator, bFrame, order) ==
    LET slot == GetRoots(events, bFrame, bCreator)
    IN  IF slot = {} THEN ZeroEvent ELSE FirstOf(slot, order)

\* Poset.rootObservesRoot: the first root b visited in the slot with
\* ForklessCause(a, b); nil (ZeroEvent) when there is none
rootObservesRoot(events, a, bCreator, bFrame, order) ==
    LET slot == GetRoots(events, bFrame, bCreator)
        seen == {b \in slot : ForklessCause(a, b)}
    IN  IF seen = {} THEN ZeroEvent ELSE FirstOf(seen, order)

\* Election.stronglySeenRoots: the roots of a frame that a root observes
stronglySeenRoots(el, events, root, frame, order) ==
    {rootObservesRoot(events, root, member, frame, order) :
        member \in {m \in DOMAIN el.members : el.members[m] # 0}} \ {ZeroEvent}

NoRes == [Frame |-> 0, SfWitness |-> ZeroEvent]

\* the decision of the election: when every member is decided, the root of
\* the first member, in the order of the validators, that was decided yes
chooseAtropos(el) ==
    LET yes == {d \in el.decidedRoots : d[2].yes}
    IN  IF notDecidedRoots(el) # {} \/ yes = {} THEN NoRes
        ELSE LET first == CHOOSE d \in yes :
                            \A o \in yes : Rank(el.members, d[1]) <= Rank(el.members, o[1])
             IN  [Frame |-> el.frameToDecide, SfWitness |-> first[2].seenRoot]

(***************************************************************************)
(* Election.ProcessRoot: the votes of a new root for the members that are  *)
(* not decided.  In the first round a vote is yes when the root observes   *)
(* the member's root of the frame to decide; in a later round it is the    *)
(* majority, by stake, of the votes of the roots of the frame before that  *)
(* the root observes, and it is decided when the majority is a quorum.     *)
(***************************************************************************)
ProcessRoot(el, events, newRoot, order) ==
    LET frame == DagFrames[newRoot]
        round == frame - el.frameToDecide
        subjects == notDecidedRoots(el)
        seenRoots == stronglySeenRoots(el, events, newRoot, frame - 1, order)
        votesFor(subject) ==
            {v \in el.votes : v.fromRoot \in seenRoots /\ v.forMember = subject}
        yesVotes(subject) == {v \in votesFor(subject) : v.vote.yes}
        stakeOf(vs) == SumStake(el.members, {DagCreator[v.fromRoot] : v \in vs})
        missing == \E subject \in subjects, r \in seenRoots :
                       \A v \in votesFor(subject) : v.fromRoot # r
        forked == \E subject \in subjects :
                       \E v \in yesVotes(subject), w \in yesVotes(subject) :
                           v.vote.seenRoot # w.vote.seenRoot
        voteOf(subject) ==
            IF round = 1
            THEN LET seen == rootObservesRoot(events, newRoot, subject, el.frameToDecide, order)
                 IN  [decided |-> FALSE, yes |-> seen # ZeroEvent, seenRoot |-> seen]
            ELSE LET Y == stakeOf(yesVotes(subject))
                     N == stakeOf(votesFor(subject) \ yesVotes(subject))
                 IN  [decided |-> Y >= Quorum(el.members) \/ N >= Quorum(el.members),
                      yes |-> Y >= N,
                      seenRoot |-> IF Y >= N /\ yesVotes(subject) # {}
                                   THEN (CHOOSE v \in yesVotes(subject) : TRUE).vote.seenRoot
                                   ELSE ZeroEvent]
        el1 == [el EXCEPT
                  !.votes = @ \cup {[fromRoot |-> newRoot, forMember |-> s, vote |-> voteOf(s)] :
                                        s \in subjects},
                  !.decidedRoots = @ \cup {<<s, voteOf(s)>> : s \in {t \in subjects : voteOf(t).decided}}]
    IN  IF frame <= el.frameToDecide
        THEN [el |-> el, decided |-> NoRes, err |-> FALSE]
        ELSE IF round > 1 /\ (missing \/ forked)
        THEN [el |-> el, decided |-> NoRes, err |-> TRUE]
        ELSE [el |-> el1, decided |-> chooseAtropos(el1),
              err |-> notDecidedRoots(el1) = {} /\ chooseAtropos(el1) = NoRes]

\* the roots of frames frameToDecide+1 .. maxKnownFrame in the order in which
\* ProcessKnownRoots ranges over them: frames ascending, then the members
\* map, then the roots of the slot
RECURSIVE RootsInOrder(_, _, _)
RootsInOrder(S, memberOrder, rootOrder) ==
    IF S = {} THEN << >>
    ELSE LET first == CHOOSE r \in S : \A o \in S :
                 \/ DagFrames[r] < DagFrames[o]
                 \/ /\ DagFrames[r] = DagFrames[o]
                    /\ memberOrder * DagCreator[r] < memberOrder * DagCreator[o]
                 \/ /\ DagFrames[r] = DagFrames[o]
                    /\ DagCreator[r] = DagCreator[o]
                    /\ rootOrder * r <= rootOrder * o
         IN  <<first>> \o RootsInOrder(S \ {first}, memberOrder, rootOrder)

\* a loop that goes on after a decision or an error and returns what the
\* last root yields
RECURSIVE ProcessRoots_NoStop(_, _, _, _)
ProcessRoots_NoStop(el, events, rootsLeft, order) ==
    IF rootsLeft = << >> THEN [el |-> el, decided |-> NoRes, err |-> FALSE, handed |-> << >>]
    ELSE LET r == ProcessRoot(el, events, Head(rootsLeft), order)
             call == [root |-> Head(rootsLeft), decided |-> r.decided, err |-> r.err]
         IN  IF Len(rootsLeft) = 1
             THEN [el |-> r.el, decided |-> r.decided, err |-> r.err, handed |-> <<call>>]
             ELSE [ProcessRoots_NoStop(r.el, events, Tail(rootsLeft), order)
                      EXCEPT !.handed = <<call>> \o @]

\* the loops of ProcessKnownRoots over the roots in their order; handed is
\* history: the calls of ProcessRoot, each with what it returned
RECURSIVE ProcessRoots(_, _, _, _)
ProcessRoots(el, events, rootsLeft, order) ==
    IF rootsLeft = << >> THEN [el |-> el, decided |-> NoRes, err |-> FALSE, handed |-> << >>]
    ELSE LET r == ProcessRoot(el, events, Head(rootsLeft), order)
             call == [root |-> Head(rootsLeft), decided |-> r.decided, err |-> r.err]
         IN  IF r.decided # NoRes \/ r.err
             THEN [el |-> r.el, decided |-> r.decided, err |-> r.err, handed |-> <<call>>]
             ELSE [ProcessRoots(r.el, events, Tail(rootsLeft), order)
                      EXCEPT !.handed = <<call>> \o @]

\* a ProcessKnownRoots that starts one frame too high
ProcessKnownRoots_SkipsFrame(el, maxKnownFrame, events, memberOrder, rootOrder) ==
    LET known == {r \in events \cap DagRoots :
                    /\ DagFrames[r] >= el.frameToDecide + 2
                    /\ DagFrames[r] <= maxKnownFrame
                    /\ el.members[DagCreator[r]] # 0}
    IN  ProcessRoots(el, events, RootsInOrder(known, memberOrder, rootOrder), rootOrder)

\* Election.ProcessKnownRoots
ProcessKnownRoots(el, maxKnownFrame, events, memberOrder, rootOrder) ==
    LET known == {r \in events \cap DagRoots :
                    /\ DagFrames[r] >= el.frameToDecide + 1
                    /\ DagFrames[r] <= maxKnownFrame
                    /\ el.members[DagCreator[r]] # 0}
    IN  ProcessRoots(el, events, RootsInOrder(known, memberOrder, rootOrder), rootOrder)

\* the engines fed with the DAG
Replicas == {1, 2}
ReplicasInit ==
    /\ replicas = [i \in Replicas |->
                     [events |-> {},
                      election |-> Reset(DagStake, firstFrame),
                      crashed |-> FALSE,
                      failed |-> FALSE,
                      decisions |-> {},
                      incremental |-> {},
                      known |-> {},
                      restored |-> FALSE]]
    /\ DagInit

(***************************************************************************)
(* The gossip service.  Two threads connect events: the protocol manager   *)
(* (events from the network) and the emitter (events of this node, which   *)
(* is validator 1).  Each is handed a mutex by the service and locks it    *)
(* around the whole of engine.ProcessEvent.                                *)
(***************************************************************************)
Threads == {"network", "emitter"}
Mutexes == {"engineMu", "emitterMu"}
NoThread == "none"
SelfValidator == 1

\* an emitter that is built with a mutex of its own
EngineMuOf_EmitterOwnMutex(t) == IF t = "emitter" THEN "emitterMu" ELSE "engineMu"

\* the mutex a thread is built with: NewProtocolManager(.., svc.engineMu, ..)
\* and EmitterWorld{EngineMu: s.engineMu}
EngineMuOf(t) == "engineMu"

\* the gossip Store
HasEvent(st, e) == e \in st.events
SetEvent(st, e) == [st EXCEPT !.events = st.events \cup {e}]
\* a DeleteEvent that leaves the record
DeleteEvent_KeepsRecord(st, e) == st
DeleteEvent(st, e) == [st EXCEPT !.events = st.events \ {e}]
SetLastEvent(st, e) == [st EXCEPT !.lastEvent[EventCreator(e)] = e]
\* a DelHead that deletes nothing
DelHead_KeepsParents(st, parents) == st
DelHead(st, parents) == [st EXCEPT !.heads = st.heads \ parents]
AddHead(st, e) == [st EXCEPT !.heads = st.heads \cup {e}]
\* the heads as the processEvent of api.go keeps them: a parent is deleted
\* if IsHead finds it
IsHead(st, e) == e \in st.headsChecked
trackHeadsChecked(st, e) ==
    [st EXCEPT !.headsChecked = (@ \ {parent \in EventParents(e) : IsHead(st, parent)}) \cup {e}]
delEpochStore(st) ==
    [st EXCEPT !.heads = {}, !.headsChecked = {}, !.lastEvent = [v \in Nodes |-> ZeroEvent]]
\* occurredTxs.CollectNotConfirmedTxs and Clear: the events whose
\* transactions are in the buffer
CollectNotConfirmedTxs(st, e) == [st EXCEPT !.occurredTxs = st.occurredTxs \cup {e}]
ClearOccurredTxs(st) == [st EXCEPT !.occurredTxs = {}]
\* packsOnNewEvent and packsOnNewEpoch: the events of the pack that is open
packsOnNewEvent(st, e) == [st EXCEPT !.packs = st.packs \cup {e}]
packsOnNewEpoch(st) == [st EXCEPT !.packs = {}]
Commit(st, key, immediately) ==
    [st EXCEPT !.committed = key, !.flushes = IF immediately THEN 1 ELSE st.flushes]

\* the threads that use the epoch state: the engine thread, which seals
\* epochs, and a thread of a third party, which calls GetEpochValidators
NoValidators == [v \in Nodes |-> 0]
NoResult == [validators |-> NoValidators, epoch |-> 0]
EpochAccessInit ==
    /\ epochMu = NoThread
    /\ sealer = [pc |-> "idle", validators |-> NoValidators, epoch |-> 0,
                 atropos |-> ZeroEvent,
                 installed |-> [n \in firstEpoch..MaxEpoch |->
                                   IF n = epochState.EpochN THEN epochState.Validators
                                   ELSE NoValidators]]
    /\ reader = [pc |-> "idle", validators |-> NoValidators, epoch |-> 0,
                 returned |-> NoResult]

(***************************************************************************)
(* Gas power.  A uint64 is a number below Word, which stands for 2^64; a   *)
(* big.Int is an integer.  A time.Duration counts ticks, of which the hour *)
(* of the model has 3600.                                                  *)
(***************************************************************************)
Word == 1048576
Hour == 3600
Uint64(a) == a % Word

\* a multiplication of uint64s, which wraps around
mul_Wraps(a, b) == (a * b) % Word

\* mul, div: a.Mul(a, b), a.Div(a, b) on a big.Int
mul(a, b) == a * b
div(a, b) == a \div b

\* a calcValidatorGasPowerPerH that does not raise startup to the minimum
calcValidatorGasPowerPerH_NoMinimum(validators, gasCfg, validator) ==
    LET stake == validators[validator]
        perHour_bn == div(mul(gasCfg.TotalPerH, stake), TotalStake(validators))
        maxGasPower_bn == div(mul(perHour_bn, gasCfg.MaxGasPowerPeriod), Hour)
        startup_bn == div(mul(perHour_bn, gasCfg.StartupPeriod), Hour)
    IN  IF stake = 0
        THEN [perHour |-> 0, maxGasPower |-> 0, startup |-> 0]
        ELSE [perHour |-> Uint64(perHour_bn),
              maxGasPower |-> Uint64(maxGasPower_bn),
              startup |-> Uint64(startup_bn)]

\* Poset.calcValidatorGasPowerPerH, for p.Validators and p.dag.GasPower
calcValidatorGasPowerPerH(validators, gasCfg, validator) ==
    LET stake == validators[validator]
        perHour_bn == div(mul(gasCfg.TotalPerH, stake), TotalStake(validators))
        maxGasPower_bn == div(mul(perHour_bn, gasCfg.MaxGasPowerPeriod), Hour)
        startup_bn == div(mul(perHour_bn, gasCfg.StartupPeriod), Hour)
        startup == Uint64(startup_bn)
    IN  IF stake = 0
        THEN [perHour |-> 0, maxGasPower |-> 0, startup |-> 0]
        ELSE [perHour |-> Uint64(perHour_bn),
              maxGasPower |-> Uint64(maxGasPower_bn),
              startup |-> IF startup < gasCfg.MinStartupGasPower
                          THEN gasCfg.MinStartupGasPower ELSE startup]

\* an event header as CalcGasPower reads it: the creator, the claimed time,
\* and the header of the self-parent (NoHeader when there is none)
GasHeader(creator, seq, time, left) ==
    [Hash |-> EventOf(creator, seq), Creator |-> creator, Seq |-> seq,
     ClaimedTime |-> time, GasPowerLeft |-> left]

\* a prior gas power that is raised to the startup whatever it comes from
prevGasPowerLeft_AlwaysRaised(e, lastHeaders, startup) ==
    LET left == IF e.SelfParent # NoHeader THEN e.SelfParent.GasPowerLeft
                ELSE IF lastHeaders[e.Creator] # NoHeader
                THEN lastHeaders[e.Creator].GasPowerLeft
                ELSE startup
    IN  IF left < startup THEN startup ELSE left

\* CalcGasPower: prevGasPowerLeft
prevGasPowerLeft(e, lastHeaders, startup) ==
    IF e.SelfParent # NoHeader
    THEN e.SelfParent.GasPowerLeft
    ELSE IF lastHeaders[e.Creator] # NoHeader
    THEN IF lastHeaders[e.Creator].GasPowerLeft < startup
         THEN startup ELSE lastHeaders[e.Creator].GasPowerLeft
    ELSE startup

\* CalcGasPower: gasPowerAllocated_bn
gasPowerAllocated(e, gasPowerPerH) == Uint64(div(mul(1, gasPowerPerH), Hour))

\* a CalcGasPower that caps the allocation only, before it adds the prior
\* gas power left
CalcGasPower_CapsAllocation(validators, gasCfg, lastHeaders, e) ==
    LET perH == calcValidatorGasPowerPerH(validators, gasCfg, e.Creator)
        prev == prevGasPowerLeft(e, lastHeaders, perH.startup)
        allocated == gasPowerAllocated(e, perH.perHour)
        capped == IF allocated > perH.maxGasPower THEN perH.maxGasPower ELSE allocated
    IN  [prevGasPowerLeft |-> prev,
         gasPowerAllocated |-> allocated,
         gasPower |-> (capped + prev) % Word]

\* Poset.CalcGasPower, with the values of its local variables
CalcGasPower(validators, gasCfg, lastHeaders, e) ==
    LET perH == calcValidatorGasPowerPerH(validators, gasCfg, e.Creator)
        prev == prevGasPowerLeft(e, lastHeaders, perH.startup)
        allocated == gasPowerAllocated(e, perH.perHour)
        gasPower == (allocated + prev) % Word
    IN  [prevGasPowerLeft |-> prev,
         gasPowerAllocated |-> allocated,
         gasPower |-> IF gasPower > perH.maxGasPower THEN perH.maxGasPower ELSE gasPower]

\* no gas power is being calculated
NoGas == [pc |-> "none"]

\* no block is being assembled
NoSpill == [pc |-> "none"]

\* no block is being confirmed
NoBlk == [pc |-> "none"]

\* no key-value store is in use
NoKv == [pc |-> "none"]

\* no event of package inter is being built
NoInter == [pc |-> "none"]

\* no function is called on its own
NoUnit == [pc |-> "none"]

\* the units that are not exercised, all of them but u
UnitsIdleExcept(u) ==
    /\ u # "spill" => spill = NoSpill
    /\ u # "blk" => blk = NoBlk
    /\ u # "kv" => kv = NoKv
    /\ u # "inter" => inter = NoInter
    /\ u # "unit" => unit = NoUnit
UnitsInit == UnitsIdleExcept("none")

GossipInit ==
    /\ engineMu = [m \in Mutexes |-> NoThread]
    /\ pc = [t \in Threads |-> "idle"]
    /\ cur = [t \in Threads |-> ZeroEvent]
    /\ gstore = [events |-> {}, heads |-> {}, headsChecked |-> {},
                 lastEvent |-> [v \in Nodes |-> ZeroEvent],
                 occurredTxs |-> {}, packs |-> {},
                 committed |-> ZeroEvent, flushes |-> 0]
    /\ done = FALSE

PosetInit(n, k, validators, next, sh) ==
    PosetBoot(n, k, validators, next, sh, Reset(validators, k + 1))

Init ==
    /\ \E n \in firstEpoch..(MaxEpoch - 1), k \in 0..(EpochLen - 1),
          validators \in InitValidators, next \in InitNextValidators, sh \in StateHashes :
            \E el \in ElectionsOf(validators, k + 1) : PosetBoot(n, k, validators, next, sh, el)
    /\ GossipInit
    /\ ReplicasInit
    /\ EpochAccessInit
    /\ gas = NoGas
    /\ UnitsInit

Install(p) ==
    /\ epochState' = p.epochState
    /\ checkpoint' = p.checkpoint
    /\ election' = p.election
    /\ vecClock' = p.vecClock
    /\ store' = p.store
    /\ crashed' = p.crashed
    /\ applied' = p.applied
    /\ seals' = p.seals

(***************************************************************************)
(* The election decides the frame it was reset to, with one of the frame's *)
(* roots as atropos: onFrameDecided, then tryToSealEpoch.                  *)
(***************************************************************************)
FrameDecided(atropos, applyOut) ==
    /\ ~crashed
    /\ election.frameToDecide <= EpochLen
    /\ atropos \in RootsOf(election.frameToDecide)
    /\ LET frame == election.frameToDecide
           r == onFrameDecided(Poset, frame, atropos, applyOut)
       IN  /\ decided' = Append(decided, [Frame |-> frame, Atropos |-> atropos])
           /\ IF r.p.crashed
              THEN Install(r.p)
              ELSE Install(tryToSealEpoch(r.p, atropos, r.lastHeaders).p)
    /\ UNCHANGED <<gossipVars, electionVars, epochVars, gas, unitVars>>

\* TestPosetTxn: "force Epoch commit", p.onNewEpoch(hash, nil)
ForceEpochCommit(atropos) ==
    /\ ~crashed
    /\ epochState.EpochN < MaxEpoch
    /\ Install(onNewEpoch(Poset, atropos, NoHeaders))
    /\ UNCHANGED decided
    /\ UNCHANGED <<gossipVars, electionVars, epochVars, gas, unitVars>>

ApplyOuts == [StateHash : StateHashes, Validators : ValidatorMaps]
EpochRoots == UNION {RootsOf(frame) : frame \in 1..EpochLen}

Next ==
    \/ \E atropos \in EpochRoots, applyOut \in ApplyOuts : FrameDecided(atropos, applyOut)
    \/ \E atropos \in EpochRoots : ForceEpochCommit(atropos)

Spec == Init /\ [][Next]_vars

(***************************************************************************)
(* The ingest of events by the gossip service, from the genesis.  Each     *)
(* thread takes its mutex, runs Service.processEvent on one event step by  *)
(* step, and releases the mutex.                                           *)
(***************************************************************************)
InitIngest ==
    /\ \E validators \in InitValidators :
            PosetInit(firstEpoch, 0, validators, validators, 0)
    /\ GossipInit
    /\ ReplicasInit
    /\ EpochAccessInit
    /\ gas = NoGas
    /\ UnitsInit

Running == ~crashed /\ ~done
Goto(t, label) == pc' = [pc EXCEPT ![t] = label]

\* the protocol manager is handed an event by a peer and asks for the mutex;
\* an event of this node is one the emitter has connected before
Arrive(e) ==
    /\ Running /\ pc["network"] = "idle"
    /\ EventCreator(e) # SelfValidator \/ e \in gstore.events
    /\ cur' = [cur EXCEPT !["network"] = e]
    /\ Goto("network", "lock")
    /\ UNCHANGED <<posetVars, engineMu, gstore, done, electionVars, epochVars, gas, unitVars>>

\* the emitter's timer fires and the emitter asks for the mutex
Tick ==
    /\ Running /\ pc["emitter"] = "idle"
    /\ Goto("emitter", "lock")
    /\ UNCHANGED <<posetVars, engineMu, cur, gstore, done, electionVars, epochVars, gas, unitVars>>

\* sync.RWMutex.Lock
Lock(t) ==
    /\ Running /\ pc[t] = "lock"
    /\ engineMu[EngineMuOf(t)] = NoThread
    /\ engineMu' = [engineMu EXCEPT ![EngineMuOf(t)] = t]
    /\ Goto(t, IF t = "emitter" THEN "create" ELSE "check")
    /\ UNCHANGED <<posetVars, cur, gstore, done, electionVars, epochVars, gas, unitVars>>

\* sync.RWMutex.Unlock
Unlock(t) ==
    /\ Running /\ pc[t] = "unlock"
    /\ engineMu' = [engineMu EXCEPT ![EngineMuOf(t)] = NoThread]
    /\ cur' = [cur EXCEPT ![t] = ZeroEvent]
    /\ Goto(t, "idle")
    /\ UNCHANGED <<posetVars, gstore, done, electionVars, epochVars, gas, unitVars>>

\* the emitter builds its next event on the events of the layer below, if
\* the store has them all
CreateEvent ==
    /\ Running /\ pc["emitter"] = "create"
    /\ LET last == gstore.lastEvent[SelfValidator]
           seq == IF last = ZeroEvent THEN 1 ELSE EventSeq(last) + 1
       IN  IF seq <= MaxSeq /\ EventParents(EventOf(SelfValidator, seq)) \subseteq gstore.events
           THEN /\ cur' = [cur EXCEPT !["emitter"] = EventOf(SelfValidator, seq)]
                /\ Goto("emitter", "check")
           ELSE /\ cur' = cur
                /\ Goto("emitter", "unlock")
    /\ UNCHANGED <<posetVars, engineMu, gstore, done, electionVars, epochVars, gas, unitVars>>

\* the return of engine.ProcessEvent with an error: the protocol manager
\* drops the event, OnEmitted calls Log.Crit
ReturnErr(t) ==
    /\ crashed' = (t = "emitter")
    /\ Goto(t, "unlock")

\* a processEvent without the sanity check
CheckAndSet_NoSanityCheck(t) ==
    /\ Running /\ pc[t] = "check"
    /\ gstore' = SetEvent(gstore, cur[t])
    /\ Goto(t, "engine")
    /\ crashed' = crashed
    /\ UNCHANGED <<epochState, checkpoint, election, vecClock, store, decided, applied, seals>>
    /\ UNCHANGED <<engineMu, cur, done, electionVars, epochVars, gas, unitVars>>

\* processEvent: the sanity check and SetEvent
CheckAndSet(t) ==
    /\ Running /\ pc[t] = "check"
    /\ IF HasEvent(gstore, cur[t])
       THEN /\ ReturnErr(t)
            /\ gstore' = gstore
       ELSE /\ gstore' = SetEvent(gstore, cur[t])
            /\ Goto(t, "engine")
            /\ crashed' = crashed
    /\ UNCHANGED <<epochState, checkpoint, election, vecClock, store, decided, applied, seals>>
    /\ UNCHANGED <<engineMu, cur, done, electionVars, epochVars, gas, unitVars>>

\* the engine's answer to an event: an error when a parent is unknown, a
\* frame decision when the event is a root two frames or more above the
\* frame to decide, nothing otherwise
EngineErr(e) == ~(EventParents(e) \subseteq gstore.events)
EngineDecides(e) ==
    /\ ~EngineErr(e)
    /\ IsRoot(e)
    /\ EventFrame(e) >= election.frameToDecide + 2
    /\ election.frameToDecide <= EpochLen

\* processEvent: realEngine.ProcessEvent fails and the event is deleted
EngineRejects(t) ==
    /\ Running /\ pc[t] = "engine"
    /\ EngineErr(cur[t])
    /\ gstore' = DeleteEvent(gstore, cur[t])
    /\ ReturnErr(t)
    /\ UNCHANGED <<epochState, checkpoint, election, vecClock, store, decided, applied, seals>>
    /\ UNCHANGED <<engineMu, cur, done, electionVars, epochVars, gas, unitVars>>

\* processEvent: realEngine.ProcessEvent connects the event
EngineAccepts(t) ==
    /\ Running /\ pc[t] = "engine"
    /\ ~EngineErr(cur[t]) /\ ~EngineDecides(cur[t])
    /\ Goto(t, "index")
    /\ UNCHANGED <<posetVars, engineMu, cur, gstore, done, electionVars, epochVars, gas, unitVars>>

\* processEvent: realEngine.ProcessEvent connects the event and the election
\* decides a frame: onFrameDecided, then tryToSealEpoch
EngineDecidesFrame(t, atropos, applyOut) ==
    /\ Running /\ pc[t] = "engine"
    /\ EngineDecides(cur[t])
    /\ atropos \in RootsOf(election.frameToDecide)
    /\ LET frame == election.frameToDecide
           r == onFrameDecided(Poset, frame, atropos, applyOut)
       IN  /\ decided' = Append(decided, [Frame |-> frame, Atropos |-> atropos])
           /\ IF r.p.crashed
              THEN Install(r.p) /\ pc' = pc
              ELSE Install(tryToSealEpoch(r.p, atropos, r.lastHeaders).p) /\ Goto(t, "index")
    /\ UNCHANGED <<engineMu, cur, gstore, done, electionVars, epochVars, gas, unitVars>>

\* processEvent: the last event of the creator and the heads
IndexEvent(t) ==
    /\ Running /\ pc[t] = "index"
    /\ LET st1 == SetLastEvent(CollectNotConfirmedTxs(gstore, cur[t]), cur[t])
           st2 == trackHeadsChecked(AddHead(DelHead(st1, EventParents(cur[t])), cur[t]), cur[t])
       IN  gstore' = packsOnNewEvent(st2, cur[t])
    /\ Goto(t, "epoch")
    /\ UNCHANGED <<posetVars, engineMu, cur, done, electionVars, epochVars, gas, unitVars>>

\* processEvent: the epoch the engine is in now, and the commit.  The
\* events of the DAG are those of the epoch the poset started in.
EpochAndCommit(t) ==
    /\ Running /\ pc[t] = "epoch"
    /\ LET oldEpoch == firstEpoch
           newEpoch == GetEpochValidators(Poset)[2]
           st == IF newEpoch # oldEpoch
                 THEN ClearOccurredTxs(delEpochStore(packsOnNewEpoch(gstore)))
                 ELSE gstore
       IN  gstore' = Commit(st, cur[t], newEpoch # oldEpoch)
    /\ Goto(t, "unlock")
    /\ UNCHANGED <<posetVars, engineMu, cur, done, electionVars, epochVars, gas, unitVars>>

\* Service.Stop: after the routines stopped, the state is flushed under
\* engineMu
Stop ==
    /\ Running
    /\ \A t \in Threads : pc[t] = "idle"
    /\ engineMu["engineMu"] = NoThread
    /\ done' = TRUE
    /\ gstore' = Commit(gstore, ZeroEvent, TRUE)
    /\ UNCHANGED <<posetVars, engineMu, pc, cur, electionVars, epochVars, gas, unitVars>>

NextIngest ==
    \/ \E e \in Events : Arrive(e)
    \/ Tick
    \/ \E t \in Threads : Lock(t)
    \/ CreateEvent
    \/ \E t \in Threads : CheckAndSet(t)
    \/ \E t \in Threads : EngineRejects(t)
    \/ \E t \in Threads : EngineAccepts(t)
    \/ \E t \in Threads, atropos \in EpochRoots, applyOut \in ApplyOuts :
            EngineDecidesFrame(t, atropos, applyOut)
    \/ \E t \in Threads : IndexEvent(t)
    \/ \E t \in Threads : EpochAndCommit(t)
    \/ \E t \in Threads : Unlock(t)
    \/ Stop

SpecIngest == InitIngest /\ [][NextIngest]_vars

(***************************************************************************)
(* Election.ProcessKnownRoots called on its own: an election that was      *)
(* reset for a frame, the events connected so far, and the highest frame   *)
(* the caller knows of.                                                    *)
(***************************************************************************)
MaxKnownFrame == 5
UnitRest == <<posetVars, gossipVars, electionVars, epochVars, gas, spill, blk, kv, inter>>

InitKnownRoots ==
    /\ PosetInit(firstEpoch, 0, [v \in Nodes |-> 1], [v \in Nodes |-> 1], 0)
    /\ GossipInit
    /\ ReplicasInit
    /\ EpochAccessInit
    /\ gas = NoGas
    /\ UnitsIdleExcept("unit")
    /\ \E frameToDecide \in {1, 2}, k \in 0..Len(DagCreator), maxKnownFrame \in 0..MaxKnownFrame,
          memberOrder \in IterationOrders, rootOrder \in IterationOrders :
          unit = [pc |-> "known roots",
                  el |-> Reset(DagStake, frameToDecide),
                  events |-> 1..k,
                  maxKnownFrame |-> maxKnownFrame,
                  memberOrder |-> memberOrder, rootOrder |-> rootOrder,
                  done |-> FALSE,
                  res |-> ProcessRoots(Reset(DagStake, frameToDecide), {}, << >>, 1)]

\* decided, err := el.ProcessKnownRoots(maxKnownFrame, getRootsFn)
CallProcessKnownRoots ==
    /\ unit.pc = "known roots"
    /\ ~unit.done
    /\ unit' = [unit EXCEPT
                   !.done = TRUE,
                   !.res = ProcessKnownRoots(unit.el, unit.maxKnownFrame, unit.events,
                                             unit.memberOrder, unit.rootOrder)]
    /\ UNCHANGED UnitRest

NextKnownRoots == CallProcessKnownRoots

SpecKnownRoots == InitKnownRoots /\ [][NextKnownRoots]_vars

(***************************************************************************)
(* Poset.rootObservesRoot called on its own, over the entries that the     *)
(* iteration of the table of roots visits: the roots of the slot asked     *)
(* for, in either order, and, in a table that is not consistent, an entry  *)
(* of another slot at the head or at the end of them.                      *)
(***************************************************************************)
NoEntry == [f |-> 0, from |-> 0, b |-> ZeroEvent]
RootEntry(b) == [f |-> DagFrames[b], from |-> DagCreator[b], b |-> b]

\* the entries of a slot in the order of the iteration
RECURSIVE SlotEntries(_, _)
SlotEntries(slot, order) ==
    IF slot = {} THEN << >>
    ELSE <<RootEntry(FirstOf(slot, order))>> \o SlotEntries(slot \ {FirstOf(slot, order)}, order)

\* a callback that does not look at the slot of the entry
RECURSIVE rootObservesRootOver_NoSlotCheck(_, _, _, _)
rootObservesRootOver_NoSlotCheck(entries, a, bCreator, bFrame) ==
    IF entries = << >> THEN [crit |-> FALSE, bHash |-> ZeroEvent]
    ELSE IF ForklessCause(a, Head(entries).b) THEN [crit |-> FALSE, bHash |-> Head(entries).b]
    ELSE rootObservesRootOver_NoSlotCheck(Tail(entries), a, bCreator, bFrame)

\* Poset.rootObservesRoot: the callback, entry by entry
RECURSIVE rootObservesRootOver(_, _, _, _)
rootObservesRootOver(entries, a, bCreator, bFrame) ==
    IF entries = << >> THEN [crit |-> FALSE, bHash |-> ZeroEvent]
    ELSE LET e == Head(entries)
         IN  IF e.f # bFrame \/ e.from # bCreator THEN [crit |-> TRUE, bHash |-> ZeroEvent]
             ELSE IF ForklessCause(a, e.b) THEN [crit |-> FALSE, bHash |-> e.b]
             ELSE rootObservesRootOver(Tail(entries), a, bCreator, bFrame)

InitObserves ==
    /\ PosetInit(firstEpoch, 0, [v \in Nodes |-> 1], [v \in Nodes |-> 1], 0)
    /\ GossipInit
    /\ ReplicasInit
    /\ EpochAccessInit
    /\ gas = NoGas
    /\ UnitsIdleExcept("unit")
    /\ \E a \in DagRoots, bCreator \in DagValidators, bFrame \in 1..MaxKnownFrame,
          order \in IterationOrders, stray \in DagRoots \cup {ZeroEvent}, atHead \in BOOLEAN :
          LET slot == SlotEntries(GetRoots(DagEvents, bFrame, bCreator), order)
          IN  /\ stray # ZeroEvent => DagFrames[stray] # bFrame \/ DagCreator[stray] # bCreator
              /\ stray = ZeroEvent => atHead
              /\ unit = [pc |-> "observes", a |-> a, bCreator |-> bCreator, bFrame |-> bFrame,
                          order |-> order, stray |-> stray,
                          entries |-> IF stray = ZeroEvent THEN slot
                                      ELSE IF atHead THEN <<RootEntry(stray)>> \o slot
                                      ELSE slot \o <<RootEntry(stray)>>,
                          done |-> FALSE, res |-> [crit |-> FALSE, bHash |-> ZeroEvent]]

\* bHash := p.rootObservesRoot(a, bCreator, bFrame)
CallRootObservesRoot ==
    /\ unit.pc = "observes"
    /\ ~unit.done
    /\ unit' = [unit EXCEPT
                   !.done = TRUE,
                   !.res = rootObservesRootOver(unit.entries, unit.a, unit.bCreator, unit.bFrame)]
    /\ UNCHANGED UnitRest

NextObserves == CallRootObservesRoot

SpecObserves == InitObserves /\ [][NextObserves]_vars

(***************************************************************************)
(* Two engines are fed the events of the DAG, each in an order of its own  *)
(* that respects the parents.  A root is handed to the election when it is *)
(* connected; after a restart the election is run again over the roots in  *)
(* the store.  A decision is handed to onFrameDecided, which ends the      *)
(* process before the checkpoint is saved, so an engine that is started    *)
(* again decides from the frame it was at.                                 *)
(***************************************************************************)
InitElection ==
    /\ PosetInit(firstEpoch, 0, [v \in Nodes |-> 1], [v \in Nodes |-> 1], 0)
    /\ GossipInit
    /\ ReplicasInit
    /\ EpochAccessInit
    /\ gas = NoGas
    /\ UnitsInit

\* the engine after the election has answered
Answered(rep, r) ==
    IF r.err
    THEN [rep EXCEPT !.crashed = TRUE, !.failed = TRUE]
    ELSE IF r.decided # NoRes
    THEN [rep EXCEPT !.election = Reset(DagStake, r.decided.Frame + 1),
                     !.decisions = @ \cup {[Frame |-> r.decided.Frame,
                                             Atropos |-> r.decided.SfWitness]},
                     !.crashed = TRUE]
    ELSE [rep EXCEPT !.election = r.el, !.crashed = FALSE]

\* the decision that the election has answered with, if any
DecisionsOf(r) ==
    IF r.err \/ r.decided = NoRes THEN {}
    ELSE {[Frame |-> r.decided.Frame, Atropos |-> r.decided.SfWitness]}

\* engine 1 takes the events in any order that respects the parents, engine
\* 2 in the order of their names
CanConnect(i, e) ==
    /\ ~replicas[i].crashed
    /\ e \notin replicas[i].events
    /\ DagParents[e] \subseteq replicas[i].events
    /\ i = 2 => 1..(e - 1) \subseteq replicas[i].events

\* an event that is no root is connected
ConnectEvent(i, e) ==
    /\ CanConnect(i, e)
    /\ e \notin DagRoots
    /\ replicas' = [replicas EXCEPT ![i].events = @ \cup {e}]
    /\ UNCHANGED <<posetVars, gossipVars, dag, epochVars, gas, unitVars>>

\* a root is connected and the election processes it
ConnectRoot(i, e, order) ==
    /\ CanConnect(i, e)
    /\ e \in DagRoots
    /\ LET rep == [replicas[i] EXCEPT !.events = @ \cup {e}]
           r == ProcessRoot(rep.election, rep.events, e, order)
       IN  replicas' = [replicas EXCEPT
                ![i] = [Answered(rep, r) EXCEPT !.incremental = @ \cup DecisionsOf(r)]]
    /\ UNCHANGED <<posetVars, gossipVars, dag, epochVars, gas, unitVars>>

\* the engine is started on its store: the election of the frame after the
\* last decided frame of the saved checkpoint, run over the known roots
Bootstrap(i, memberOrder, rootOrder) ==
    /\ LET rep == replicas[i]
           frames == {DagFrames[r] : r \in rep.events \cap DagRoots}
           maxKnownFrame == IF frames = {} THEN 0
                            ELSE CHOOSE f \in frames : \A g \in frames : g <= f
           r == ProcessKnownRoots(Reset(DagStake, firstFrame), maxKnownFrame,
                                  rep.events, memberOrder, rootOrder)
       IN  replicas' = [replicas EXCEPT
                ![i] = [Answered(rep, r) EXCEPT !.restored = TRUE,
                                                !.known = @ \cup DecisionsOf(r)]]
    /\ UNCHANGED <<posetVars, gossipVars, dag, epochVars, gas, unitVars>>

NextElection ==
    \/ \E i \in Replicas, e \in DagEvents : ConnectEvent(i, e)
    \/ \E i \in Replicas, e \in DagEvents, order \in IterationOrders : ConnectRoot(i, e, order)
    \/ \E i \in Replicas, memberOrder \in IterationOrders, rootOrder \in IterationOrders :
            Bootstrap(i, memberOrder, rootOrder)

SpecElection == InitElection /\ [][NextElection]_vars

(***************************************************************************)
(* Access to the epoch state.  The engine thread seals epochs, onNewEpoch  *)
(* being stepped through statement by statement with setEpochValidators    *)
(* inside it; another thread calls GetEpochValidators again and again.     *)
(***************************************************************************)
InitEpoch ==
    /\ \E n \in firstEpoch..(MaxEpoch - 1),
          validators \in InitValidators, next \in InitNextValidators :
            PosetInit(n, 0, validators, next, 0)
    /\ GossipInit
    /\ ReplicasInit
    /\ EpochAccessInit
    /\ gas = NoGas
    /\ UnitsInit

\* a mutex that does not exclude
EpochMuFree_NoExclusion(t) == TRUE

\* epochMu.Lock() returns when no thread holds the mutex
EpochMuFree(t) == epochMu = NoThread

\* onNewEpoch: the new PrevEpoch state, and the arguments of
\* setEpochValidators
SealBegin(atropos) ==
    /\ ~crashed
    /\ sealer.pc = "idle"
    /\ epochState.EpochN < MaxEpoch
    /\ epochState' = [epochState EXCEPT !.PrevEpoch =
            [Time |-> frameConsensusTime(Poset, checkpoint.LastDecidedFrame),
             Epoch |-> epochState.EpochN,
             LastAtropos |-> atropos,
             StateHash |-> checkpoint.StateHash,
             LastHeaders |-> NoHeaders]]
    /\ sealer' = [sealer EXCEPT !.pc = "lock",
                                !.validators = Top(checkpoint.NextValidators),
                                !.epoch = epochState.EpochN + 1,
                                !.atropos = atropos,
                                !.installed[epochState.EpochN + 1] = Top(checkpoint.NextValidators)]
    /\ UNCHANGED <<checkpoint, election, vecClock, store, crashed, decided, applied, seals>>
    /\ UNCHANGED <<gossipVars, electionVars, epochMu, reader, gas, unitVars>>

\* setEpochValidators: p.epochMu.Lock()
SealLock ==
    /\ sealer.pc = "lock"
    /\ EpochMuFree("sealer")
    /\ epochMu' = "sealer"
    /\ sealer' = [sealer EXCEPT !.pc = "validators"]
    /\ UNCHANGED <<posetVars, gossipVars, electionVars, reader, gas, unitVars>>

\* setEpochValidators: p.Validators = validators
SealSetValidators ==
    /\ sealer.pc = "validators"
    /\ epochState' = [epochState EXCEPT !.Validators = sealer.validators]
    /\ sealer' = [sealer EXCEPT !.pc = "epoch"]
    /\ UNCHANGED <<checkpoint, election, vecClock, store, crashed, decided, applied, seals>>
    /\ UNCHANGED <<gossipVars, electionVars, epochMu, reader, gas, unitVars>>

\* setEpochValidators: p.EpochN = epoch
SealSetEpoch ==
    /\ sealer.pc = "epoch"
    /\ epochState' = [epochState EXCEPT !.EpochN = sealer.epoch]
    /\ sealer' = [sealer EXCEPT !.pc = "unlock"]
    /\ UNCHANGED <<checkpoint, election, vecClock, store, crashed, decided, applied, seals>>
    /\ UNCHANGED <<gossipVars, electionVars, epochMu, reader, gas, unitVars>>

\* setEpochValidators: the deferred p.epochMu.Unlock()
SealUnlock ==
    /\ sealer.pc = "unlock"
    /\ epochMu' = NoThread
    /\ sealer' = [sealer EXCEPT !.pc = "rest"]
    /\ UNCHANGED <<posetVars, gossipVars, electionVars, reader, gas, unitVars>>

\* onNewEpoch after setEpochValidators: NextValidators, LastDecidedFrame,
\* the commit, the epoch tables and the reset of the engine
SealEnd ==
    /\ sealer.pc = "rest"
    /\ LET p3 == [Poset EXCEPT !.checkpoint.NextValidators = Copy(epochState.Validators),
                               !.checkpoint.LastDecidedFrame = 0,
                               !.seals = Append(seals, sealer.atropos)]
           p4 == saveCheckpoint([p3 EXCEPT !.store.Epoch = p3.epochState])
       IN  Install(resetEngine(RecreateEpochDb(p4, p4.epochState.EpochN)))
    /\ sealer' = [sealer EXCEPT !.pc = "idle"]
    /\ UNCHANGED decided
    /\ UNCHANGED <<gossipVars, electionVars, epochMu, reader, gas, unitVars>>

\* GetEpochValidators: p.epochMu.Lock()
ReadLock ==
    /\ reader.pc = "idle"
    /\ EpochMuFree("reader")
    /\ epochMu' = "reader"
    /\ reader' = [reader EXCEPT !.pc = "validators"]
    /\ UNCHANGED <<posetVars, gossipVars, electionVars, sealer, gas, unitVars>>

\* GetEpochValidators: the first operand of the return, p.Validators.Copy()
ReadValidators ==
    /\ reader.pc = "validators"
    /\ reader' = [reader EXCEPT !.pc = "epoch", !.validators = Copy(epochState.Validators)]
    /\ UNCHANGED <<posetVars, gossipVars, electionVars, epochMu, sealer, gas, unitVars>>

\* GetEpochValidators: the second operand of the return, p.EpochN
ReadEpoch ==
    /\ reader.pc = "epoch"
    /\ reader' = [reader EXCEPT !.pc = "unlock", !.epoch = epochState.EpochN]
    /\ UNCHANGED <<posetVars, gossipVars, electionVars, epochMu, sealer, gas, unitVars>>

\* GetEpochValidators: the deferred p.epochMu.Unlock(), and the return
ReadUnlock ==
    /\ reader.pc = "unlock"
    /\ epochMu' = NoThread
    /\ reader' = [reader EXCEPT !.pc = "idle",
                                !.returned = [validators |-> reader.validators,
                                              epoch |-> reader.epoch]]
    /\ UNCHANGED <<posetVars, gossipVars, electionVars, sealer, gas, unitVars>>

NextEpoch ==
    \/ \E atropos \in RootsOf(EpochLen) : SealBegin(atropos)
    \/ SealLock
    \/ SealSetValidators
    \/ SealSetEpoch
    \/ SealUnlock
    \/ SealEnd
    \/ ReadLock
    \/ ReadValidators
    \/ ReadEpoch
    \/ ReadUnlock

SpecEpoch == InitEpoch /\ [][NextEpoch]_vars

(***************************************************************************)
(* Gas power: the poset of an epoch, with its validators, its gas          *)
(* configuration and the last headers of the epoch before, is asked for    *)
(* the gas power of a validator and for the gas power of an event.         *)
(***************************************************************************)
GasValidators ==
    {[v \in Nodes |-> IF v = 1 THEN 250 ELSE IF v = 2 THEN 750 ELSE 0],
     [v \in Nodes |-> IF v = 1 THEN MaxStake ELSE 1]}
GasConfigs ==
    [TotalPerH : {360000, 7200},
     MaxGasPowerPeriod : {10, Hour},
     StartupPeriod : {5},
     MinStartupGasPower : {0, 100, 200}]
GasLefts == {0, 150, 300, Word - 1}
GasPeriods == {1, 10, Hour}
\* the events: the first of a creator in the epoch, or one with a self-parent
GasEvents ==
    {[Creator |-> c, ClaimedTime |-> genesisTestTime + Hour, SelfParent |-> NoHeader] :
        c \in Nodes}
    \cup
    {[Creator |-> c, ClaimedTime |-> genesisTestTime + Hour + dt,
      SelfParent |-> GasHeader(c, 1, genesisTestTime + Hour, left)] :
        c \in Nodes, dt \in GasPeriods, left \in GasLefts}
GasLastHeaders ==
    {NoHeaders} \cup
    {[c \in Nodes |-> GasHeader(c, 1, genesisTestTime, left)] : left \in GasLefts}

NoPerH == [perHour |-> 0, maxGasPower |-> 0, startup |-> 0, validator |-> 0]
NoPower == [prevGasPowerLeft |-> 0, gasPowerAllocated |-> 0, gasPower |-> 0, done |-> FALSE]

InitGas ==
    /\ \E validators \in GasValidators, lastHeaders \in GasLastHeaders :
          /\ epochState = [InitEpochState(firstEpoch + 1, validators)
                              EXCEPT !.PrevEpoch.LastHeaders = lastHeaders]
          /\ checkpoint = [LastDecidedFrame |-> 0,
                           LastBlockN |-> GenesisBlock.Index + EpochLen,
                           LastAtropos |-> RootOf(1, EpochLen), StateHash |-> 0,
                           NextValidators |-> validators]
          /\ election = Reset(validators, firstFrame)
          /\ vecClock = [validators |-> validators, table |-> firstEpoch + 1]
    /\ store = [Epoch |-> epochState, Checkpoint |-> checkpoint,
                epochDb |-> EmptyEpochDb(epochState.EpochN)]
    /\ crashed = FALSE
    /\ decided = << >>
    /\ applied = << >>
    /\ seals = << >>
    /\ GossipInit
    /\ ReplicasInit
    /\ EpochAccessInit
    /\ \E gasCfg \in GasConfigs, e \in GasEvents :
          gas = [pc |-> "ready", dag |-> gasCfg, event |-> e,
                 perH |-> NoPerH, power |-> NoPower]
    /\ UnitsInit

\* calcValidatorGasPowerPerH(validator) is called
GasPowerPerH(validator) ==
    /\ gas.pc = "ready"
    /\ gas.perH = NoPerH
    /\ gas' = [gas EXCEPT !.perH =
            [perHour |-> calcValidatorGasPowerPerH(epochState.Validators, gas.dag, validator).perHour,
             maxGasPower |-> calcValidatorGasPowerPerH(epochState.Validators, gas.dag, validator).maxGasPower,
             startup |-> calcValidatorGasPowerPerH(epochState.Validators, gas.dag, validator).startup,
             validator |-> validator]]
    /\ UNCHANGED <<posetVars, gossipVars, electionVars, epochVars, unitVars>>

\* CalcGasPower(e) is called
GasPower ==
    /\ gas.pc = "ready"
    /\ ~gas.power.done
    /\ gas' = [gas EXCEPT !.power =
            [prevGasPowerLeft |-> CalcGasPower(epochState.Validators, gas.dag,
                                     epochState.PrevEpoch.LastHeaders, gas.event).prevGasPowerLeft,
             gasPowerAllocated |-> CalcGasPower(epochState.Validators, gas.dag,
                                     epochState.PrevEpoch.LastHeaders, gas.event).gasPowerAllocated,
             gasPower |-> CalcGasPower(epochState.Validators, gas.dag,
                                     epochState.PrevEpoch.LastHeaders, gas.event).gasPower,
             done |-> TRUE]]
    /\ UNCHANGED <<posetVars, gossipVars, electionVars, epochVars, unitVars>>

NextGas ==
    \/ \E validator \in Nodes : GasPowerPerH(validator)
    \/ GasPower

SpecGas == InitGas /\ [][NextGas]_vars

(***************************************************************************)
(* Block assembly: spillBlockEvents.  A block names its events by their    *)
(* ids; the store holds an event, with its GasPowerUsed, for an id, or      *)
(* none.  GasPowerUsed and the limit are uint64s.                           *)
(***************************************************************************)
MaxBlockEvents == 3
SpillIds == 1..MaxBlockEvents
NilEvent == [id |-> 0, GasPowerUsed |-> 0]
SpillGasPowerUsed == {0, 1, 2, Word - 1}
SpillLimits == {0, 2, 3}
\* the stored events: of every id, or of every id but the last
SpillStores ==
    {[id \in SpillIds |-> [id |-> id, GasPowerUsed |-> g[id]]] :
        g \in [SpillIds -> SpillGasPowerUsed]}
    \cup
    {[id \in SpillIds |-> IF id = MaxBlockEvents THEN NilEvent
                          ELSE [id |-> id, GasPowerUsed |-> 1]]}
\* block.Events: the ids in some order, or the first ones of them
SpillBlocks ==
    {ids \in UNION {[1..n -> SpillIds] : n \in 0..MaxBlockEvents} :
        \A i, j \in DOMAIN ids : i # j => ids[i] # ids[j]}

\* a loop that spills as soon as the limit is reached
RECURSIVE spillLoop_SpillsAtLimit(_, _, _, _, _, _)
spillLoop_SpillsAtLimit(events, getEvent, limit, i, gasPowerUsedSum, fullEvents) ==
    LET e == getEvent[events[i]]
        full == [fullEvents EXCEPT ![i] = e]
        sum == (gasPowerUsedSum + e.GasPowerUsed) % Word
    IN  IF e = NilEvent
        THEN [crit |-> TRUE, Events |-> events, fullEvents |-> fullEvents]
        ELSE IF sum >= limit
        THEN [crit |-> FALSE,
              Events |-> SubSeq(events, i + 1, Len(events)),
              fullEvents |-> SubSeq(full, i + 1, Len(events))]
        ELSE IF i = 1
        THEN [crit |-> FALSE, Events |-> events, fullEvents |-> full]
        ELSE spillLoop_SpillsAtLimit(events, getEvent, limit, i - 1, sum, full)

\* the loop of spillBlockEvents at index i (the index i - 1 of the code),
\* with the sum and the full events so far
RECURSIVE spillLoop(_, _, _, _, _, _)
spillLoop(events, getEvent, limit, i, gasPowerUsedSum, fullEvents) ==
    LET e == getEvent[events[i]]
        full == [fullEvents EXCEPT ![i] = e]
        sum == (gasPowerUsedSum + e.GasPowerUsed) % Word
    IN  IF e = NilEvent
        THEN [crit |-> TRUE, Events |-> events, fullEvents |-> fullEvents]
        ELSE IF sum > limit
        THEN [crit |-> FALSE,
              Events |-> SubSeq(events, i + 1, Len(events)),
              fullEvents |-> SubSeq(full, i + 1, Len(events))]
        ELSE IF i = 1
        THEN [crit |-> FALSE, Events |-> events, fullEvents |-> full]
        ELSE spillLoop(events, getEvent, limit, i - 1, sum, full)

\* Service.spillBlockEvents
spillBlockEvents(events, getEvent, limit) ==
    IF Len(events) = 0
    THEN [crit |-> FALSE, Events |-> events, fullEvents |-> << >>]
    ELSE spillLoop(events, getEvent, limit, Len(events), 0,
                   [i \in 1..Len(events) |-> NilEvent])

NoSpilled == [crit |-> FALSE, Events |-> << >>, fullEvents |-> << >>, done |-> FALSE]

InitSpill ==
    /\ PosetInit(firstEpoch, 0, [v \in Nodes |-> 1], [v \in Nodes |-> 1], 0)
    /\ GossipInit
    /\ ReplicasInit
    /\ EpochAccessInit
    /\ gas = NoGas
    /\ UnitsIdleExcept("spill")
    /\ \E events \in SpillBlocks, getEvent \in SpillStores, limit \in SpillLimits :
          spill = [pc |-> "ready", Events |-> events, store |-> getEvent,
                   BlockGasHardLimit |-> limit, out |-> NoSpilled]

\* assembleEvmBlock calls spillBlockEvents(block)
SpillBlockEvents ==
    /\ spill.pc = "ready"
    /\ ~spill.out.done
    /\ spill' = [spill EXCEPT !.out =
            [crit |-> spillBlockEvents(spill.Events, spill.store, spill.BlockGasHardLimit).crit,
             Events |-> spillBlockEvents(spill.Events, spill.store, spill.BlockGasHardLimit).Events,
             fullEvents |-> spillBlockEvents(spill.Events, spill.store, spill.BlockGasHardLimit).fullEvents,
             done |-> TRUE]]
    /\ UNCHANGED <<posetVars, gossipVars, electionVars, epochVars, gas, blk, kv, inter, unit>>

NextSpill == SpillBlockEvents

SpecSpill == InitSpill /\ [][NextSpill]_vars

(***************************************************************************)
(* Block assembly: assembleEvmBlock and the positions of the transactions  *)
(* in applyNewState.  The events of the store carry transactions; a        *)
(* transaction may be carried by several events.                           *)
(***************************************************************************)
Txs == {1, 2}
TxLists == {<< >>, <<1>>, <<1, 2>>}
\* the stored events: GasPowerUsed 1 each, or the id, or the last missing
AssembleStores ==
    {[id \in SpillIds |-> [id |-> id, GasPowerUsed |-> 1]],
     [id \in SpillIds |-> [id |-> id, GasPowerUsed |-> id]],
     [id \in SpillIds |-> IF id = MaxBlockEvents THEN NilEvent
                           ELSE [id |-> id, GasPowerUsed |-> 1]]}

\* the loop of assembleEvmBlock over the events that range was given, at
\* index i, with the transactions and the blockEvents so far
RECURSIVE assembleLoop(_, _, _, _, _)
assembleLoop(ranged, txsOf, i, transactions, blockEvents) ==
    IF i > Len(ranged)
    THEN [Transactions |-> transactions, blockEvents |-> blockEvents]
    ELSE assembleLoop(ranged, txsOf, i + 1, transactions \o txsOf[ranged[i].id],
                      Append(blockEvents, ranged[i]))

\* Service.assembleEvmBlock: range takes the slice blockEvents as it is
\* before the loop, and the loop appends to the variable blockEvents
assembleEvmBlock(events, skippedTxs, getEvent, limit, txsOf) ==
    LET sp == spillBlockEvents(events, getEvent, limit)
        r  == assembleLoop(sp.fullEvents, txsOf, 1, << >>, sp.fullEvents)
    IN  IF skippedTxs \/ sp.crit
        THEN [crit |-> TRUE, Events |-> events, Transactions |-> << >>, blockEvents |-> << >>]
        ELSE [crit |-> FALSE, Events |-> sp.Events, Transactions |-> r.Transactions,
              blockEvents |-> r.blockEvents]

\* applyNewState: the position of each transaction, at index i of the
\* blockEvents: a transaction that has one keeps it
NoPosition == [Event |-> 0, EventOffset |-> 0]
FirstOffset(txs, tx) == CHOOSE k \in 1..Len(txs) : txs[k] = tx /\ \A j \in 1..(k - 1) : txs[j] # tx
RECURSIVE txPositionsLoop(_, _, _, _)
txPositionsLoop(blockEvents, txsOf, i, txPositions) ==
    IF i > Len(blockEvents) THEN txPositions
    ELSE LET e == blockEvents[i]
         IN  txPositionsLoop(blockEvents, txsOf, i + 1,
                [tx \in Txs |->
                    IF txPositions[tx] = NoPosition /\ tx \in Range(txsOf[e.id])
                    THEN [Event |-> e.id, EventOffset |-> FirstOffset(txsOf[e.id], tx) - 1]
                    ELSE txPositions[tx]])

InitAssemble ==
    /\ PosetInit(firstEpoch, 0, [v \in Nodes |-> 1], [v \in Nodes |-> 1], 0)
    /\ GossipInit
    /\ ReplicasInit
    /\ EpochAccessInit
    /\ gas = NoGas
    /\ UnitsIdleExcept("unit")
    /\ \E events \in SpillBlocks, getEvent \in AssembleStores, limit \in SpillLimits,
          txsOf \in [SpillIds -> TxLists], skippedTxs \in BOOLEAN :
          unit = [pc |-> "assemble", Events |-> events, SkippedTxs |-> skippedTxs,
                  store |-> getEvent, BlockGasHardLimit |-> limit, txs |-> txsOf,
                  done |-> FALSE,
                  out |-> [crit |-> FALSE, Events |-> << >>, Transactions |-> << >>,
                           blockEvents |-> << >>],
                  txPositions |-> [tx \in Txs |-> NoPosition]]

\* applyNewState calls assembleEvmBlock(block) and memorizes the positions
CallAssembleEvmBlock ==
    /\ unit.pc = "assemble"
    /\ ~unit.done
    /\ LET r == assembleEvmBlock(unit.Events, unit.SkippedTxs, unit.store,
                                 unit.BlockGasHardLimit, unit.txs)
       IN  unit' = [unit EXCEPT !.done = TRUE, !.out = r,
                                !.txPositions = txPositionsLoop(r.blockEvents, unit.txs, 1, @)]
    /\ UNCHANGED UnitRest

NextAssemble == CallAssembleEvmBlock

SpecAssemble == InitAssemble /\ [][NextAssemble]_vars

(***************************************************************************)
(* Block confirmation: the callbacks of the gossip service.  The poset     *)
(* walks the events that an atropos confirms and hands each one, with its  *)
(* seqDepth, to onEventConfirmed and to isEventAllowedIntoBlock; seqDepth  *)
(* is the distance of the event's Seq from that of the creator's highest   *)
(* confirmed event.                                                        *)
(***************************************************************************)
BlockCreators == {1, 2}
BlockSeqs == 1..3
BlockCaps == {1, 2}
\* the headers that a block may confirm, with or without transactions
BlockHeader(creator, seq, noTxs) ==
    [Creator |-> creator, Seq |-> seq, NoTransactions |-> noTxs]
BlockConfirmed ==
    {{BlockHeader(c, sq, sq \in empty[c]) : c \in BlockCreators, sq \in 1..top} :
        top \in BlockSeqs, empty \in [BlockCreators -> SUBSET BlockSeqs]}

\* Service.isEventAllowedIntoBlock, cap being MaxValidatorEventsInBlock
isEventAllowedIntoBlock(header, seqDepth, cap) ==
    IF header.NoTransactions THEN FALSE
    ELSE IF seqDepth > cap THEN FALSE
    ELSE TRUE

\* Service.onEventConfirmed: the last headers and the participants
onEventConfirmed(b, header, seqDepth) ==
    [b EXCEPT !.lastHeaders = IF seqDepth = 0 THEN @ \cup {header} ELSE @,
              !.blockParticipated = @ \cup {header.Creator}]

\* the distance of the header from the highest confirmed one of its creator
seqDepthOf(confirmed, header) ==
    LET seqs == {h.Seq : h \in {x \in confirmed : x.Creator = header.Creator}}
    IN  (CHOOSE top \in seqs : \A sq \in seqs : sq <= top) - header.Seq

InitBlk ==
    /\ PosetInit(firstEpoch, 0, [v \in Nodes |-> 1], [v \in Nodes |-> 1], 0)
    /\ GossipInit
    /\ ReplicasInit
    /\ EpochAccessInit
    /\ gas = NoGas
    /\ UnitsIdleExcept("blk")
    /\ \E confirmed \in BlockConfirmed, cap \in BlockCaps :
          blk = [pc |-> "ready", confirmed |-> confirmed,
                 MaxValidatorEventsInBlock |-> cap, walked |-> {},
                 blockEvents |-> {}, lastHeaders |-> {}, blockParticipated |-> {}]

\* the walk reaches a confirmed event: it is announced, and asked about
ConfirmEvent(header) ==
    /\ blk.pc = "ready"
    /\ header \in blk.confirmed \ blk.walked
    /\ blk' = [onEventConfirmed(blk, header, seqDepthOf(blk.confirmed, header))
                 EXCEPT !.walked = @ \cup {header},
                        !.blockEvents =
                            IF isEventAllowedIntoBlock(header,
                                   seqDepthOf(blk.confirmed, header),
                                   blk.MaxValidatorEventsInBlock)
                            THEN @ \cup {header} ELSE @]
    /\ UNCHANGED <<posetVars, gossipVars, electionVars, epochVars, gas, spill, kv, inter, unit>>

NextBlk == \E c \in BlockCreators, sq \in BlockSeqs, noTxs \in BOOLEAN :
              ConfirmEvent(BlockHeader(c, sq, noTxs))

SpecBlk == InitBlk /\ [][NextBlk]_vars

(***************************************************************************)
(* The key-value store in memory.  A []byte is a sequence of bytes, the    *)
(* map of a MemDatabase a function from full keys to values, and a table a *)
(* MemDatabase of the same map and lock with a prefix of its own.          *)
(***************************************************************************)
separator == <<":", ":">>
Nil == "nil"
EmptyDb == [k \in {} |-> Nil]
NewMemDatabase == [prefix |-> << >>]
NewTable(w, prefix) == [prefix |-> w.prefix \o <<"-">> \o prefix]
fullKey(w, key) == w.prefix \o separator \o key
HasPrefix(key, prefix) ==
    Len(prefix) <= Len(key) /\ SubSeq(key, 1, Len(prefix)) = prefix

\* the map after db[k] = v and after delete(db, k)
MapSet(db, k, v) == [x \in DOMAIN db \cup {k} |-> IF x = k THEN v ELSE db[x]]
MapDelete(db, k) == [x \in DOMAIN db \ {k} |-> db[x]]

\* MemDatabase.Put and Delete: the map they leave
MemPut(db, w, key, value) == MapSet(db, fullKey(w, key), value)
MemDelete(db, w, key) == MapDelete(db, fullKey(w, key))

\* a Has that reports an absent key as an error
MemHas_AbsentIsError(db, w, key) ==
    IF fullKey(w, key) \in DOMAIN db THEN [ok |-> TRUE, err |-> Nil]
    ELSE [ok |-> FALSE, err |-> "not found"]

\* MemDatabase.Has
MemHas(db, w, key) == [ok |-> fullKey(w, key) \in DOMAIN db, err |-> Nil]

\* MemDatabase.Get
MemGet(db, w, key) ==
    IF fullKey(w, key) \in DOMAIN db
    THEN [value |-> db[fullKey(w, key)], err |-> Nil]
    ELSE [value |-> Nil, err |-> Nil]

\* MemDatabase.ForEach with a do that takes every pair: the pairs it is given
MemForEach(db, w, prefix) ==
    {<<SubSeq(k, Len(w.prefix) + Len(separator) + 1, Len(k)), db[k]>> :
        k \in {x \in DOMAIN db : HasPrefix(x, fullKey(w, prefix))}}

\* memBatch.Put and Delete: the writes they append
BatchPutKv(w, key, value) == [k |-> fullKey(w, key), v |-> value, del |-> FALSE]
BatchDeleteKv(w, key) == [k |-> fullKey(w, key), v |-> Nil, del |-> TRUE]
\* memBatch.Write: one turn of its loop
WriteKv(db, write) ==
    IF write.del THEN MapDelete(db, write.k) ELSE MapSet(db, write.k, write.v)

(***************************************************************************)
(* A database with one table is used by a writing thread, which puts and   *)
(* deletes keys, directly or through a batch of the table or of the        *)
(* database, and by reading threads.  Write is stepped through turn by     *)
(* turn of its loop; next is the turn it is at, 0 when the thread is not   *)
(* in Write.  present, deleted and stable are history: the keys that were  *)
(* put and not deleted since, the keys that were deleted, and the map when *)
(* the lock was last released; pending is history too: what was asked of   *)
(* the batch since its last Reset.                                         *)
(***************************************************************************)
MaxBatch == 2
KvTables == {"db", "table"}
KvTable(t) == IF t = "db" THEN NewMemDatabase ELSE NewTable(NewMemDatabase, <<"t">>)
KvKeys == {<<"k">>}
KvValues == {"v", "w"}
NoRead == [op |-> "none"]

InitKv ==
    /\ PosetInit(firstEpoch, 0, [v \in Nodes |-> 1], [v \in Nodes |-> 1], 0)
    /\ GossipInit
    /\ ReplicasInit
    /\ EpochAccessInit
    /\ gas = NoGas
    /\ UnitsIdleExcept("kv")
    /\ \E t \in KvTables :
          kv = [pc |-> "ready", db |-> EmptyDb, lock |-> NoThread,
                batch |-> t, writes |-> << >>, pending |-> << >>, next |-> 0,
                present |-> {}, deleted |-> {}, stable |-> EmptyDb,
                read |-> NoRead]

\* a lock that excludes no one
KvLockFree_NoExclusion == TRUE

\* w.lock.Lock() and RLock() return
KvLockFree == kv.lock = NoThread

KvRest == <<posetVars, gossipVars, electionVars, epochVars, gas, spill, blk, inter, unit>>

KvPut(t, key, value) ==
    /\ kv.pc = "ready" /\ KvLockFree
    /\ kv' = [kv EXCEPT !.db = MemPut(kv.db, KvTable(t), key, value),
                         !.stable = MemPut(kv.db, KvTable(t), key, value),
                         !.present = @ \cup {<<t, key>>}]
    /\ UNCHANGED KvRest

KvDelete(t, key) ==
    /\ kv.pc = "ready" /\ KvLockFree
    /\ kv' = [kv EXCEPT !.db = MemDelete(kv.db, KvTable(t), key),
                         !.stable = MemDelete(kv.db, KvTable(t), key),
                         !.present = @ \ {<<t, key>>},
                         !.deleted = @ \cup {<<t, key>>}]
    /\ UNCHANGED KvRest

\* the reads: the result, with what the history says of the key
KvGet(t, key) ==
    /\ kv.pc = "ready" /\ KvLockFree
    /\ kv' = [kv EXCEPT !.read =
            [op |-> "Get", value |-> MemGet(kv.db, KvTable(t), key).value,
             err |-> MemGet(kv.db, KvTable(t), key).err,
             present |-> <<t, key>> \in kv.present,
             stable |-> MemGet(kv.stable, KvTable(t), key).value]]
    /\ UNCHANGED KvRest

KvHas(t, key) ==
    /\ kv.pc = "ready" /\ KvLockFree
    /\ kv' = [kv EXCEPT !.read =
            [op |-> "Has", value |-> MemHas(kv.db, KvTable(t), key).ok,
             err |-> MemHas(kv.db, KvTable(t), key).err,
             present |-> <<t, key>> \in kv.present,
             stable |-> MemHas(kv.stable, KvTable(t), key).ok]]
    /\ UNCHANGED KvRest

KvForEach(t, prefix) ==
    /\ kv.pc = "ready" /\ KvLockFree
    /\ kv' = [kv EXCEPT !.read =
            [op |-> "ForEach", value |-> MemForEach(kv.db, KvTable(t), prefix),
             err |-> Nil,
             present |-> {k \in KvKeys : <<t, k>> \in kv.present /\ HasPrefix(k, prefix)},
             stable |-> MemForEach(kv.stable, KvTable(t), prefix)]]
    /\ UNCHANGED KvRest

\* the batch: Put, Delete and Reset, by the thread that owns it
KvBatchPut(key, value) ==
    /\ kv.pc = "ready" /\ kv.next = 0
    /\ Len(kv.writes) < MaxBatch
    /\ kv' = [kv EXCEPT !.writes = Append(@, BatchPutKv(KvTable(kv.batch), key, value)),
                         !.pending = Append(@, [key |-> key, v |-> value, del |-> FALSE])]
    /\ UNCHANGED KvRest

KvBatchDelete(key) ==
    /\ kv.pc = "ready" /\ kv.next = 0
    /\ Len(kv.writes) < MaxBatch
    /\ kv' = [kv EXCEPT !.writes = Append(@, BatchDeleteKv(KvTable(kv.batch), key)),
                         !.pending = Append(@, [key |-> key, v |-> Nil, del |-> TRUE])]
    /\ UNCHANGED KvRest

KvBatchReset ==
    /\ kv.pc = "ready" /\ kv.next = 0
    /\ kv.writes # << >>
    /\ kv' = [kv EXCEPT !.writes = << >>, !.pending = << >>]
    /\ UNCHANGED KvRest

\* memBatch.Write: Lock, the turns of the loop, the deferred Unlock
KvWriteLock ==
    /\ kv.pc = "ready" /\ kv.next = 0 /\ KvLockFree
    /\ kv' = [kv EXCEPT !.lock = "writer", !.next = 1]
    /\ UNCHANGED KvRest

KvWriteTurn ==
    /\ kv.pc = "ready" /\ kv.next > 0
    /\ kv.next <= Len(kv.writes)
    /\ kv' = [kv EXCEPT !.db = WriteKv(kv.db, kv.writes[kv.next]),
                         !.present = IF kv.pending[kv.next].del
                                     THEN @ \ {<<kv.batch, kv.pending[kv.next].key>>}
                                     ELSE @ \cup {<<kv.batch, kv.pending[kv.next].key>>},
                         !.deleted = IF kv.pending[kv.next].del
                                     THEN @ \cup {<<kv.batch, kv.pending[kv.next].key>>}
                                     ELSE @,
                         !.next = @ + 1]
    /\ UNCHANGED KvRest

KvWriteUnlock ==
    /\ kv.pc = "ready" /\ kv.next > 0
    /\ kv.next > Len(kv.writes)
    /\ kv' = [kv EXCEPT !.lock = NoThread, !.next = 0, !.stable = kv.db]
    /\ UNCHANGED KvRest

NextKv ==
    \/ \E t \in KvTables, key \in KvKeys, value \in KvValues : KvPut(t, key, value)
    \/ \E t \in KvTables, key \in KvKeys : KvDelete(t, key)
    \/ \E t \in KvTables, key \in KvKeys : KvGet(t, key)
    \/ \E t \in KvTables, key \in KvKeys : KvHas(t, key)
    \/ \E t \in KvTables, prefix \in KvKeys \cup {<< >>} : KvForEach(t, prefix)
    \/ \E key \in KvKeys, value \in KvValues : KvBatchPut(key, value)
    \/ \E key \in KvKeys : KvBatchDelete(key)
    \/ KvBatchReset
    \/ KvWriteLock
    \/ KvWriteTurn
    \/ KvWriteUnlock

SpecKv == InitKv /\ [][NextKv]_vars

(***************************************************************************)
(* Tables of one database.  A table is reached from the database by a path *)
(* of prefixes, each handed to NewTable of the table before; the database  *)
(* itself by the empty path.  Keys are put through one table and read      *)
(* through another, of a different path.                                   *)
(***************************************************************************)
TablePrefixes == {<< >>, <<"a">>, <<"-">>, <<"a", ":", ":">>}
TablePaths ==
    {<< >>} \cup {<<p>> : p \in TablePrefixes}
            \cup {<<p, q>> : p \in TablePrefixes, q \in TablePrefixes}
TableKeys == {<<"k">>, <<":", ":", "k">>}
\* the table at the end of a path
RECURSIVE TableAt(_)
TableAt(path) ==
    IF Len(path) = 0 THEN NewMemDatabase
    ELSE NewTable(TableAt(SubSeq(path, 1, Len(path) - 1)), path[Len(path)])

InitTables ==
    /\ PosetInit(firstEpoch, 0, [v \in Nodes |-> 1], [v \in Nodes |-> 1], 0)
    /\ GossipInit
    /\ ReplicasInit
    /\ EpochAccessInit
    /\ gas = NoGas
    /\ UnitsIdleExcept("kv")
    /\ \E writing \in TablePaths, reading \in TablePaths :
          /\ writing # reading
          /\ kv = [pc |-> "tables", db |-> EmptyDb,
                   writing |-> writing, reading |-> reading, read |-> NoRead]

TablePut(key, value) ==
    /\ kv.pc = "tables"
    /\ kv' = [kv EXCEPT !.db = MemPut(kv.db, TableAt(kv.writing), key, value)]
    /\ UNCHANGED KvRest

TableGet(key) ==
    /\ kv.pc = "tables"
    /\ kv' = [kv EXCEPT !.read =
            [op |-> "Get", found |-> MemGet(kv.db, TableAt(kv.reading), key).value # Nil]]
    /\ UNCHANGED KvRest

TableHas(key) ==
    /\ kv.pc = "tables"
    /\ kv' = [kv EXCEPT !.read =
            [op |-> "Has", found |-> MemHas(kv.db, TableAt(kv.reading), key).ok]]
    /\ UNCHANGED KvRest

TableForEach(prefix) ==
    /\ kv.pc = "tables"
    /\ kv' = [kv EXCEPT !.read =
            [op |-> "ForEach",
             found |-> MemForEach(kv.db, TableAt(kv.reading), prefix) # {}]]
    /\ UNCHANGED KvRest

NextTables ==
    \/ \E key \in TableKeys, value \in KvValues : TablePut(key, value)
    \/ \E key \in TableKeys : TableGet(key)
    \/ \E key \in TableKeys : TableHas(key)
    \/ \E prefix \in TableKeys \cup {<< >>} : TableForEach(prefix)

SpecTables == InitTables /\ [][NextTables]_vars

(***************************************************************************)
(* The no_key_is_err wrapper around a key-value store of the Lachesis      *)
(* style: Get of an absent key gives (nil, nil).  The store wrapped is a   *)
(* MemDatabase, which keeps and returns copies of the values; a failure of *)
(* the store stands for the errors of a store on disk.  A value is the nil *)
(* slice, an empty slice that is not nil, or a slice with bytes in it.     *)
(* Whether the copy of a nil slice is nil is left to the build.            *)
(***************************************************************************)
errNotFound == "not found"
errIO == "io error"
EmptyBytes == "empty"
WrapValues == {Nil, EmptyBytes, "v"}
WrapKeys == {1, 2}

\* common.CopyBytes
CopyBytes(b, keepsNil) == IF b = Nil /\ ~keepsNil THEN EmptyBytes ELSE b

\* what the Get of the wrapped store returns
StoreGet(st, key) ==
    IF st.failing THEN [val |-> Nil, err |-> errIO]
    ELSE IF key \in DOMAIN st.db THEN [val |-> CopyBytes(st.db[key], st.keepsNil), err |-> Nil]
    ELSE [val |-> Nil, err |-> Nil]

\* a Get that takes an empty value for a missing key
WrapperGet_EmptyIsNotFound(st, key) ==
    LET r == StoreGet(st, key)
    IN  IF r.val \in {Nil, EmptyBytes} /\ r.err = Nil THEN [val |-> Nil, err |-> errNotFound] ELSE r

\* Wrapper.Get
WrapperGet(st, key) ==
    LET r == StoreGet(st, key)
    IN  IF r.val = Nil /\ r.err = Nil THEN [val |-> Nil, err |-> errNotFound] ELSE r

InitWrapper ==
    /\ PosetInit(firstEpoch, 0, [v \in Nodes |-> 1], [v \in Nodes |-> 1], 0)
    /\ GossipInit
    /\ ReplicasInit
    /\ EpochAccessInit
    /\ gas = NoGas
    /\ UnitsIdleExcept("unit")
    /\ \E keepsNil \in BOOLEAN :
          unit = [pc |-> "wrapper", keepsNil |-> keepsNil, db |-> EmptyDb, failing |-> FALSE,
                  put |-> EmptyDb,
                  last |-> [key |-> 0, present |-> FALSE, put |-> Nil,
                            under |-> [val |-> Nil, err |-> Nil],
                            got |-> [val |-> Nil, err |-> Nil]]]

\* Put of the wrapper is that of the store; put is history: the values as
\* they were handed to Put; last is the last Get: the key, whether the store
\* held it, the value it was put with, what the store returned and what the
\* wrapper returned
WrapperPut(key, value) ==
    /\ unit.pc = "wrapper"
    /\ ~unit.failing
    /\ unit' = [unit EXCEPT !.db = MapSet(@, key, CopyBytes(value, unit.keepsNil)),
                             !.put = MapSet(@, key, value)]
    /\ UNCHANGED UnitRest

\* Delete of the wrapper is that of the store
WrapperDelete(key) ==
    /\ unit.pc = "wrapper"
    /\ ~unit.failing
    /\ unit' = [unit EXCEPT !.db = MapDelete(@, key), !.put = MapDelete(@, key)]
    /\ UNCHANGED UnitRest

\* the store begins or ceases to fail
WrapperStoreFails ==
    /\ unit.pc = "wrapper"
    /\ unit' = [unit EXCEPT !.failing = ~@]
    /\ UNCHANGED UnitRest

\* val, err := w.Get(key)
CallWrapperGet(key) ==
    /\ unit.pc = "wrapper"
    /\ unit' = [unit EXCEPT !.last = [key |-> key,
                                      present |-> key \in DOMAIN unit.db,
                                      put |-> IF key \in DOMAIN unit.put
                                              THEN unit.put[key] ELSE Nil,
                                      under |-> StoreGet(unit, key),
                                      got |-> WrapperGet(unit, key)]]
    /\ UNCHANGED UnitRest

NextWrapper ==
    \/ \E key \in WrapKeys, value \in WrapValues : WrapperPut(key, value)
    \/ \E key \in WrapKeys : WrapperDelete(key)
    \/ WrapperStoreFails
    \/ \E key \in WrapKeys : CallWrapperGet(key)

SpecWrapper == InitWrapper /\ [][NextWrapper]_vars

(***************************************************************************)
(* The state DB: balances that are changed through the journal, snapshots  *)
(* of the journal, and the calls that clear the journal.  An entry of the  *)
(* journal holds the account and the balance it had before the change.     *)
(***************************************************************************)
MaxRevisions == 2
MaxJournal == 2
Accounts == {1, 2}
Amounts == {0, 1}

\* stateObject.SetBalance: the change and its entry in the journal
SetBalance(db, addr, amount) ==
    [db EXCEPT !.journal = Append(@, [addr |-> addr, prev |-> db.balance[addr]]),
               !.balance[addr] = amount]

\* journal.revert: the entries after the snapshot are undone, last first,
\* and dropped
RECURSIVE journalRevert(_, _)
journalRevert(db, snapshot) ==
    IF Len(db.journal) <= snapshot THEN db
    ELSE LET entry == db.journal[Len(db.journal)]
         IN  journalRevert([db EXCEPT !.balance[entry.addr] = entry.prev,
                                      !.journal = SubSeq(@, 1, Len(@) - 1)], snapshot)

\* DB.Snapshot
Snapshot(db) ==
    [db |-> [db EXCEPT !.nextRevisionID = @ + 1,
                       !.validRevisions = Append(@, [id |-> db.nextRevisionID,
                                                     journalIndex |-> Len(db.journal)])],
     id |-> db.nextRevisionID]

\* sort.Search over validRevisions: the first index with id >= revID, or
\* the length (here: the length + 1)
SearchRevision(db, revID) ==
    LET at == {i \in 1..Len(db.validRevisions) : db.validRevisions[i].id >= revID}
    IN  IF at = {} THEN Len(db.validRevisions) + 1
        ELSE CHOOSE i \in at : \A j \in at : i <= j

\* DB.RevertToSnapshot
RevertToSnapshot(db, revID) ==
    LET idx == SearchRevision(db, revID)
    IN  IF idx = Len(db.validRevisions) + 1 \/ db.validRevisions[idx].id # revID
        THEN [db |-> db, panic |-> TRUE]
        ELSE [db |-> [journalRevert(db, db.validRevisions[idx].journalIndex)
                         EXCEPT !.validRevisions = SubSeq(@, 1, idx - 1)],
              panic |-> FALSE]

\* a clearJournal that leaves the revisions
clearJournal_KeepsRevisions(db) == [db EXCEPT !.journal = << >>]

\* DB.clearJournal
clearJournal(db) == [db EXCEPT !.journal = << >>, !.validRevisions = << >>]

\* DB.Finalise, DB.Commit, DB.Reset (to the root of the empty state; with
\* an error of OpenTrie nothing is reset)
Finalise(db) == clearJournal(db)
CommitDb(db) == clearJournal(db)
ResetDb(db, opened) ==
    IF ~opened THEN db ELSE clearJournal([db EXCEPT !.balance = [a \in Accounts |-> 0]])

NoCall == [op |-> "none", id |-> 0, panic |-> FALSE]

InitStateDb ==
    /\ PosetInit(firstEpoch, 0, [v \in Nodes |-> 1], [v \in Nodes |-> 1], 0)
    /\ GossipInit
    /\ ReplicasInit
    /\ EpochAccessInit
    /\ gas = NoGas
    /\ UnitsIdleExcept("unit")
    /\ unit = [pc |-> "state db",
               db |-> [balance |-> [a \in Accounts |-> 0],
                       journal |-> << >>, validRevisions |-> << >>, nextRevisionID |-> 0],
               taken |-> << >>, last |-> NoCall]

\* the state DB after a call; taken is history: for every snapshot taken,
\* in the order of the ids returned, the balances at that moment and
\* whether the snapshot is still to be revertible
AfterCall(db, taken, call) ==
    unit' = [unit EXCEPT !.db = db, !.taken = taken, !.last = call]

CallSetBalance(addr, amount) ==
    /\ unit.pc = "state db"
    /\ Len(unit.db.journal) < MaxJournal
    /\ AfterCall(SetBalance(unit.db, addr, amount), unit.taken,
                 [op |-> "set", id |-> 0, panic |-> FALSE])
    /\ UNCHANGED UnitRest

CallSnapshot ==
    /\ unit.pc = "state db"
    /\ unit.db.nextRevisionID < MaxRevisions
    /\ LET r == Snapshot(unit.db)
       IN  AfterCall(r.db, Append(unit.taken, [id |-> r.id, balance |-> unit.db.balance,
                                               valid |-> TRUE]),
                     [op |-> "snapshot", id |-> r.id, panic |-> FALSE])
    /\ UNCHANGED UnitRest

CallRevertToSnapshot(revID) ==
    /\ unit.pc = "state db"
    /\ LET r == RevertToSnapshot(unit.db, revID)
       IN  AfterCall(r.db,
                     IF r.panic THEN unit.taken
                     ELSE [i \in DOMAIN unit.taken |->
                              [unit.taken[i] EXCEPT !.valid = @ /\ unit.taken[i].id < revID]],
                     [op |-> "revert", id |-> revID, panic |-> r.panic])
    /\ UNCHANGED UnitRest

\* Finalise, Commit or Reset is called
CallClearing(op, opened) ==
    /\ unit.pc = "state db"
    /\ op = "reset" \/ opened
    /\ AfterCall(CASE op = "finalise" -> Finalise(unit.db)
                   [] op = "commit" -> CommitDb(unit.db)
                   [] op = "reset" -> ResetDb(unit.db, opened),
                 IF ~opened THEN unit.taken
                 ELSE [i \in DOMAIN unit.taken |-> [unit.taken[i] EXCEPT !.valid = FALSE]],
                 [op |-> op, id |-> 0, panic |-> FALSE])
    /\ UNCHANGED UnitRest

NextStateDb ==
    \/ \E addr \in Accounts, amount \in Amounts : CallSetBalance(addr, amount)
    \/ CallSnapshot
    \/ \E revID \in 0..MaxRevisions : CallRevertToSnapshot(revID)
    \/ \E op \in {"finalise", "commit", "reset"}, opened \in BOOLEAN : CallClearing(op, opened)

SpecStateDb == InitStateDb /\ [][NextStateDb]_vars

(***************************************************************************)
(* Events of package inter: hash and signature.  The encoding of a         *)
(* wire.Event is the sequence of its fields, the hash of a buffer is a     *)
(* value that is the same for the same bytes only, a signature names the   *)
(* key that made it and the bytes it was made over, and the address of a   *)
(* key is that of the peer who holds it.                                   *)
(***************************************************************************)
Keys == {1, 2}
NoSign == << >>
ZeroHash == << >>
EventBodies == [Seq : {1, 2}, Creator : Keys]
\* Event.ToWire, proto.Marshal, hash.Of
ToWire(e) == [Seq |-> e.Seq, Creator |-> e.Creator, Sign |-> e.Sign]
Marshal(w) == <<w.Seq, w.Creator, w.Sign>>
HashOf(buf) == <<"hash", buf>>
\* WireToEvent: the event of a wire.Event, its hash not calculated yet
WireToEvent(w) == [Seq |-> w.Seq, Creator |-> w.Creator, Sign |-> w.Sign, hash |-> ZeroHash]

\* a hash over the encoding as it is, signature and all
EventHashOf_WithSign(e) == HashOf(Marshal(ToWire(e)))

\* EventHashOf
EventHashOf(e) == HashOf(Marshal([ToWire(e) EXCEPT !.Sign = NoSign]))

\* Event.Hash: the event with its cache filled, and the value returned
EventHash(e) ==
    LET cached == IF e.hash = ZeroHash THEN [e EXCEPT !.hash = EventHashOf(e)] ELSE e
    IN  [e |-> cached, hash |-> cached.hash]

\* crypto.PrivateKey.Sign and cryptoaddr.VerifySignature
SignBytes(priv, bytes) == <<"sig", priv, bytes>>
VerifySignatureOf(peer, bytes, sig) == sig = <<"sig", peer, bytes>>

\* Event.SignBy
SignBy(e, priv) == [EventHash(e).e EXCEPT !.Sign = SignBytes(priv, EventHash(e).hash)]

\* Event.VerifySignature
VerifySignature(e) == VerifySignatureOf(e.Creator, EventHash(e).hash, e.Sign)

EventSlots == {1, 2}
InterRest == <<posetVars, gossipVars, electionVars, epochVars, gas, spill, blk, kv, unit>>

InitSign ==
    /\ PosetInit(firstEpoch, 0, [v \in Nodes |-> 1], [v \in Nodes |-> 1], 0)
    /\ GossipInit
    /\ ReplicasInit
    /\ EpochAccessInit
    /\ gas = NoGas
    /\ UnitsIdleExcept("inter")
    /\ \E bodies \in [EventSlots -> EventBodies] :
          inter = [pc |-> "sign",
                   events |-> [i \in EventSlots |->
                                 [Seq |-> bodies[i].Seq, Creator |-> bodies[i].Creator,
                                  Sign |-> NoSign, hash |-> ZeroHash]],
                   verified |-> [i \in EventSlots |-> "none"]]

\* e.Hash() is called
HashEvent(i) ==
    /\ inter.pc = "sign"
    /\ inter.events[i].hash = ZeroHash
    /\ inter' = [inter EXCEPT !.events[i] = EventHash(inter.events[i]).e]
    /\ UNCHANGED InterRest

\* e.SignBy(priv) is called
SignEvent(i, priv) ==
    /\ inter.pc = "sign"
    /\ inter' = [inter EXCEPT !.events[i] = SignBy(inter.events[i], priv),
                               !.verified[i] = "none"]
    /\ UNCHANGED InterRest

\* e.VerifySignature() is called
VerifyEvent(i) ==
    /\ inter.pc = "sign"
    /\ inter' = [inter EXCEPT !.events[i] = EventHash(inter.events[i]).e,
                               !.verified[i] = IF VerifySignature(inter.events[i])
                                               THEN "valid" ELSE "invalid"]
    /\ UNCHANGED InterRest

\* the event is sent and received: WireToEvent of its ToWire
ReceiveEvent(i, j) ==
    /\ inter.pc = "sign"
    /\ i # j
    /\ inter' = [inter EXCEPT !.events[j] = WireToEvent(ToWire(inter.events[i])),
                               !.verified[j] = "none"]
    /\ UNCHANGED InterRest

NextSign ==
    \/ \E i \in EventSlots : HashEvent(i)
    \/ \E i \in EventSlots, priv \in Keys : SignEvent(i, priv)
    \/ \E i \in EventSlots : VerifyEvent(i)
    \/ \E i \in EventSlots, j \in EventSlots : ReceiveEvent(i, j)

SpecSign == InitSign /\ [][NextSign]_vars

(***************************************************************************)
(* ASCIIschemeToDAG, the loop that creates the events of the names read.   *)
(* A name stands in a column; its link array holds, per column, 0 for no   *)
(* link, 1 for the last event of that column and 2 for the one before.     *)
(* The hash of an event is written as its place <<column, index>>.         *)
(***************************************************************************)
MaxSchemeEvents == 5
SchemeCols == {1, 2, 3}
SchemeRefs == {0, 1, 2}
SchemeZeroEvent == <<0, 0>>

\* the maximum that follows the creator's own last event only
otherParentsLamport_SelfOnly(events, links, i, maxLamport) == maxLamport

\* "find other parents": maxLamport after the columns from i on
RECURSIVE otherParentsLamport(_, _, _, _)
otherParentsLamport(events, links, i, maxLamport) ==
    IF i \notin SchemeCols THEN maxLamport
    ELSE IF links[i] < 1 THEN otherParentsLamport(events, links, i + 1, maxLamport)
    ELSE LET parent == events[i][Len(events[i]) - links[i] + 1]
         IN  otherParentsLamport(events, links, i + 1,
                 IF maxLamport < parent.LamportTime THEN parent.LamportTime ELSE maxLamport)

\* "find other parents": the hashes added to parents
otherParents(events, links) ==
    {<<i, Len(events[i]) - links[i] + 1>> : i \in {c \in SchemeCols : links[c] >= 1}}

\* the event created for a name in column creator with the link array links
schemeEvent(events, creator, links) ==
    LET last == Len(events[creator])
        hasParent == last >= 1
        index == IF hasParent THEN events[creator][last].Seq + 1 ELSE 1
        selfParent == IF hasParent THEN <<creator, last>> ELSE SchemeZeroEvent
        maxLamport == IF hasParent THEN events[creator][last].LamportTime ELSE 0
    IN  [Seq |-> index,
         Creator |-> creator,
         SelfParent |-> selfParent,
         Parents |-> {selfParent} \cup otherParents(events, links),
         LamportTime |-> otherParentsLamport(events, links, 1, maxLamport) + 1]

\* the indexing of nodes and of events[other] does not panic
schemeInRange(nodes, events, creator, links) ==
    /\ creator <= nodes + 1
    /\ \A i \in SchemeCols :
          links[i] >= 1 => /\ i <= (IF nodes < creator THEN creator ELSE nodes)
                           /\ Len(events[i]) - links[i] >= 0

InitScheme ==
    /\ PosetInit(firstEpoch, 0, [v \in Nodes |-> 1], [v \in Nodes |-> 1], 0)
    /\ GossipInit
    /\ ReplicasInit
    /\ EpochAccessInit
    /\ gas = NoGas
    /\ UnitsIdleExcept("inter")
    /\ inter = [pc |-> "scheme", nodes |-> 0, events |-> [c \in SchemeCols |-> << >>]]

\* one turn of the loop: the event of a name is created and saved
CreateSchemeEvent(creator, links) ==
    /\ inter.pc = "scheme"
    /\ Len(inter.events[1]) + Len(inter.events[2]) + Len(inter.events[3]) < MaxSchemeEvents
    /\ schemeInRange(inter.nodes, inter.events, creator, links)
    /\ inter' = [inter EXCEPT
                    !.nodes = IF @ < creator THEN creator ELSE @,
                    !.events[creator] = Append(@, schemeEvent(inter.events, creator, links))]
    /\ UNCHANGED InterRest

NextScheme ==
    \E creator \in SchemeCols, links \in [SchemeCols -> SchemeRefs] :
        CreateSchemeEvent(creator, links)

SpecScheme == InitScheme /\ [][NextScheme]_vars

(***************************************************************************)
(* EventHeaderData serialisation, as TestEventHeaderDataSerialization      *)
(* uses it.  The binary encoding is field-ordered and length-prefixed:     *)
(* Epoch and GasPowerLeft big-endian in two bytes each, the number of      *)
(* parents in one byte, the parents in two bytes each, and Extra as the    *)
(* rest.  The RLP encoding of a byte string is its length and the bytes.   *)
(***************************************************************************)
MaxParents == 2
MaxExtra == 2
Byte == 256
MaxUint == Byte * Byte - 1
HeaderHashes == {<<1, 2>>, <<Byte - 1, Byte - 1>>}
SeqsUpTo(S, n) == UNION {[1..k -> S] : k \in 0..n}
EventHeaders ==
    [Epoch : {0, 258, MaxUint},
     GasPowerLeft : {0, MaxUint},
     Parents : SeqsUpTo(HeaderHashes, MaxParents),
     Extra : SeqsUpTo({0, Byte - 1}, MaxExtra)]

BigEndian(n) == <<n \div Byte, n % Byte>>
FromBigEndian(bin, at) == bin[at] * Byte + bin[at + 1]
RECURSIVE Flatten(_)
Flatten(ss) == IF ss = << >> THEN << >> ELSE Head(ss) \o Flatten(Tail(ss))

\* EventHeaderData.MarshalBinary
MarshalBinary(h) ==
    BigEndian(h.Epoch) \o BigEndian(h.GasPowerLeft) \o <<Len(h.Parents)>>
        \o Flatten(h.Parents) \o h.Extra

\* the length of the encoding before Extra
FixedPart(h) == Len(MarshalBinary(h)) - Len(h.Extra)

ErrMalformed == [err |-> TRUE]

\* a decoder that takes the bytes that are missing as zero
UnmarshalBinary_ZeroFill(bin) ==
    LET at(i) == IF i <= Len(bin) THEN bin[i] ELSE 0
        count == at(5)
    IN  [err |-> FALSE,
         header |-> [Epoch |-> at(1) * Byte + at(2),
                     GasPowerLeft |-> at(3) * Byte + at(4),
                     Parents |-> [k \in 1..count |-> <<at(4 + 2 * k), at(5 + 2 * k)>>],
                     Extra |-> IF Len(bin) > 5 + 2 * count
                               THEN SubSeq(bin, 6 + 2 * count, Len(bin)) ELSE << >>]]

\* EventHeaderData.UnmarshalBinary
UnmarshalBinary(bin) ==
    IF Len(bin) < 5 THEN ErrMalformed
    ELSE IF Len(bin) < 5 + 2 * bin[5] THEN ErrMalformed
    ELSE [err |-> FALSE,
          header |-> [Epoch |-> FromBigEndian(bin, 1),
                      GasPowerLeft |-> FromBigEndian(bin, 3),
                      Parents |-> [k \in 1..bin[5] |-> <<bin[4 + 2 * k], bin[5 + 2 * k]>>],
                      Extra |-> SubSeq(bin, 6 + 2 * bin[5], Len(bin))]]

\* rlp.EncodeToBytes of a byte string, and of a header (EncodeRLP)
RlpEncodeBytes(bin) == <<Len(bin)>> \o bin
RlpEncodeHeader(h) == RlpEncodeBytes(MarshalBinary(h))

\* rlp.DecodeBytes into a header (DecodeRLP)
RlpDecodeHeader(buf) ==
    IF Len(buf) < 1 THEN ErrMalformed
    ELSE IF buf[1] # Len(buf) - 1 THEN ErrMalformed
    ELSE UnmarshalBinary(Tail(buf))

NoBuf == << >>
NotDecoded == [err |-> FALSE, pending |-> TRUE]
InitHeader ==
    /\ PosetInit(firstEpoch, 0, [v \in Nodes |-> 1], [v \in Nodes |-> 1], 0)
    /\ GossipInit
    /\ ReplicasInit
    /\ EpochAccessInit
    /\ gas = NoGas
    /\ UnitsIdleExcept("inter")
    /\ \E header0 \in EventHeaders :
          inter = [pc |-> "header", header0 |-> header0, buf |-> NoBuf, n |-> 0,
                   header1 |-> NotDecoded, cut |-> NoBuf, truncated |-> NotDecoded]

\* "ok": buf, err := rlp.EncodeToBytes(&header0)
EncodeHeader ==
    /\ inter.pc = "header"
    /\ inter.buf = NoBuf
    /\ inter' = [inter EXCEPT !.buf = RlpEncodeHeader(inter.header0)]
    /\ UNCHANGED InterRest

\* "ok": err = rlp.DecodeBytes(buf, &header1)
DecodeHeader ==
    /\ inter.pc = "header"
    /\ inter.buf # NoBuf
    /\ inter.header1 = NotDecoded
    /\ inter' = [inter EXCEPT !.header1 = RlpDecodeHeader(inter.buf)]
    /\ UNCHANGED InterRest

\* "err": bin = bin[0:n]; buf, err := rlp.EncodeToBytes(bin), for any n
\* less than the length of bin
TruncateHeader(n) ==
    /\ inter.pc = "header"
    /\ inter.cut = NoBuf
    /\ n < Len(MarshalBinary(inter.header0))
    /\ inter' = [inter EXCEPT !.n = n,
                      !.cut = RlpEncodeBytes(SubSeq(MarshalBinary(inter.header0), 1, n))]
    /\ UNCHANGED InterRest

\* "err": err = rlp.DecodeBytes(buf, &header1)
DecodeTruncated ==
    /\ inter.pc = "header"
    /\ inter.cut # NoBuf
    /\ inter.truncated = NotDecoded
    /\ inter' = [inter EXCEPT !.truncated = RlpDecodeHeader(inter.cut)]
    /\ UNCHANGED InterRest

NextHeader ==
    \/ EncodeHeader
    \/ DecodeHeader
    \/ \E n \in 0..(5 + 2 * MaxParents + MaxExtra) : TruncateHeader(n)
    \/ DecodeTruncated

SpecHeader == InitHeader /\ [][NextHeader]_vars

(***************************************************************************)
(* Steps of the poset.                                                     *)
(***************************************************************************)
DecidedStep == Len(decided') = Len(decided) + 1
SealStep == Len(seals') = Len(seals) + 1
LastDecided == decided'[Len(decided')]
LastApplied == applied'[Len(applied')]

C2_BlockPerDecidedFrame ==
    [][/\ GenesisBlock.Index = 0
       /\ DecidedStep =>
            /\ checkpoint'.LastBlockN = checkpoint.LastBlockN + 1
            /\ Len(applied') = Len(applied) + 1
            /\ LastApplied.Block.Index = checkpoint.LastBlockN + 1]_vars

\* C3: for every decided frame the applyBlock callback is called exactly once,
\* inside onFrameDecided and before the checkpoint is saved; the state hash it
\* returns becomes checkpoint.StateHash and the validators it returns, reduced
\* by Top(), become NextValidators (and this is the checkpoint that is saved).
C3_ApplyBlockOncePerFrame ==
    [][DecidedStep =>
        /\ Len(applied') = Len(applied) + 1
        /\ LastApplied.StateHashIn = checkpoint.StateHash
        /\ checkpoint'.StateHash = LastApplied.StateHashOut
        /\ checkpoint'.NextValidators = Top(LastApplied.ValidatorsOut)
        /\ store'.Checkpoint = checkpoint']_vars

\* C4: event ingest is serialised by engineMu.  At no time are two threads
\* inside processEvent: from the sanity check and the store insertion of an
\* event, through the engine's processing of it (a frame decision with its
\* block application and epoch seal included) and the head and index updates,
\* to the commit, no step of another event's processing is taken; so the
\* onFrameDecided of a frame precedes every later insertion.
InProcessEvent(t) == pc[t] \in {"check", "engine", "index", "epoch"}
C4_IngestSerialised ==
    /\ \A t1 \in Threads, t2 \in Threads :
            InProcessEvent(t1) /\ InProcessEvent(t2) => t1 = t2
    /\ \A t \in Threads : InProcessEvent(t) => engineMu[EngineMuOf(t)] = t

\* the network thread has stored an event and the engine has connected it,
\* while the emitter waits for the mutex
C4_Witness ==
    /\ pc["network"] = "index"
    /\ cur["network"] \in gstore.events
    /\ pc["emitter"] = "lock"
    /\ engineMu["engineMu"] = "network"

C6_SealInstallsNextEpoch ==
    [][SealStep =>
        /\ epochState'.Validators = Top(checkpoint.NextValidators)
        /\ epochState'.EpochN = epochState.EpochN + 1
        /\ checkpoint'.LastDecidedFrame = 0
        /\ store'.Epoch = epochState'
        /\ store'.Checkpoint = checkpoint'
        /\ store'.epochDb.Epoch = epochState'.EpochN
        /\ \A e \in Events : store'.epochDb.ConfirmedOn[e] = 0
        /\ \A f \in 1..EpochLen : store'.epochDb.FrameInfo[f] = 0
        /\ vecClock' = [validators |-> epochState'.Validators, table |-> epochState'.EpochN]
        /\ election'.members = epochState'.Validators
        /\ election'.frameToDecide = 1
        /\ election'.votes = {} /\ election'.decidedRoots = {}]_vars

C6_Witness ==
    /\ Len(seals) = 1
    /\ epochState.Validators \notin InitValidators
    /\ epochState.PrevEpoch.Time # genesisTestTime
    /\ checkpoint.LastDecidedFrame = 0
    /\ election.frameToDecide = 1

C8_PrevEpochDescribesSealed ==
    [][SealStep =>
        /\ epochState'.PrevEpoch.Epoch = epochState.EpochN
        /\ epochState'.PrevEpoch.Epoch = epochState'.EpochN - 1
        /\ epochState'.PrevEpoch.LastAtropos = seals'[Len(seals')]
        /\ epochState'.PrevEpoch.StateHash = checkpoint.StateHash
        /\ epochState'.PrevEpoch.StateHash = checkpoint'.StateHash
        /\ epochState'.PrevEpoch.Time =
              IF checkpoint.LastDecidedFrame = 0
              THEN epochState.PrevEpoch.Time
              ELSE store.epochDb.FrameInfo[checkpoint.LastDecidedFrame]]_vars

C8_Witness ==
    /\ Len(seals) = 1
    /\ epochState.PrevEpoch.Epoch = firstEpoch
    /\ epochState.PrevEpoch.LastAtropos = seals[1]
    /\ epochState.PrevEpoch.LastAtropos # ZeroEvent
    /\ epochState.PrevEpoch.StateHash = 1
    /\ epochState.PrevEpoch.Time = genesisTestTime + 1

\* C9: after an epoch seal PrevEpoch.LastHeaders[c] is, for every creator c
\* with an event confirmed in the sealed epoch, the header of c's highest-Seq
\* confirmed event (the DAG of the model has no cheater).
HighestConfirmed(c) ==
    LET conf == {e \in Events : EventCreator(e) = c /\ store.epochDb.ConfirmedOn[e] # 0}
    IN  IF conf = {} THEN NoHeader
        ELSE Header(CHOOSE e \in conf : \A x \in conf : EventSeq(x) <= EventSeq(e))
BlockCheckpoint(c) == <<c.LastBlockN, c.LastAtropos, c.StateHash, c.NextValidators>>

C12_EpochReadAtomic ==
    reader.returned # NoResult =>
        reader.returned.validators = sealer.installed[reader.returned.epoch]

\* the read returned the new epoch and its changed validators while the seal
\* that installs them had not ended, and waits for the mutex again, which
\* the next seal holds
C12_Witness ==
    /\ reader.returned.epoch = firstEpoch + 1
    /\ reader.returned.validators # sealer.installed[firstEpoch]
    /\ reader.returned.validators = sealer.installed[firstEpoch + 1]
    /\ sealer.epoch = firstEpoch + 2
    /\ sealer.pc = "epoch"
    /\ epochMu = "sealer"
    /\ reader.pc = "idle"

\* the state of the engine
EngineState == <<epochState, checkpoint, election, vecClock, store>>

\* C13: processEvent of an event whose hash is stored ends at the sanity
\* check, with the AlreadyConnected error, and changes nothing: the event
\* store, the heads, the last events, the packs, the buffer of occurred
\* transactions, the commits and the state of the engine, its epoch
\* included, are as they were.
C13_IngestIdempotent ==
    [][\A t \in Threads :
          pc[t] = "check" /\ pc'[t] # "check" /\ cur[t] \in gstore.events =>
              /\ pc'[t] = "unlock"
              /\ gstore' = gstore
              /\ EngineState' = EngineState]_vars

\* an event that was ingested before (it is or was a head, its transactions
\* were collected, it is in the pack) came again and was turned away: the
\* last commit is that of another event
C13_Witness ==
    /\ pc["network"] = "unlock"
    /\ cur["network"] \in gstore.events
    /\ cur["network"] \in gstore.occurredTxs \cap gstore.packs
    /\ gstore.lastEvent[EventCreator(cur["network"])] # cur["network"]
    /\ gstore.committed # cur["network"]
    /\ ~crashed

\* C14: when the engine rejects an event, processEvent returns the error
\* and the store is as before the call.  The call had added the record of
\* the event, which was absent, and nothing else; no other thread touched
\* the store since; the return removes the record and nothing else.
C14_RejectedLeavesNoTrace ==
    [][\A t \in Threads :
          /\ pc[t] = "check" /\ pc'[t] = "engine" =>
                /\ cur[t] \notin gstore.events
                /\ gstore' = [gstore EXCEPT !.events = @ \cup {cur[t]}]
          /\ pc[t] = "engine" /\ pc'[t] = "engine" => gstore' = gstore
          /\ pc[t] = "engine" /\ pc'[t] = "unlock" =>
                /\ cur[t] \notin gstore'.events
                /\ gstore' = [gstore EXCEPT !.events = @ \ {cur[t]}]]_vars

\* an event whose parents are not all stored was rejected; the store holds
\* the events, heads and pack of before, and not the event
C14_Witness ==
    /\ pc["network"] = "unlock"
    /\ cur["network"] # ZeroEvent
    /\ cur["network"] \notin gstore.events
    /\ \E h \in gstore.heads : EventSeq(h) = 2
    /\ gstore.packs = gstore.events
    /\ ~crashed

\* C15: a frame decided with an atropos that is not yet confirmed is not
\* run with zero confirmed events: the process is not ended, and the block
\* of the frame is built from events, the atropos among them.
C15_DecidedFrameHasEvents ==
    [][DecidedStep /\ store.epochDb.ConfirmedOn[LastDecided.Atropos] = 0 =>
          /\ ~crashed'
          /\ Len(applied') = Len(applied) + 1
          /\ LastDecided.Atropos \in Range(LastApplied.Block.Events)]_vars

GasStake == epochState.Validators[gas.perH.validator]

\* C17: for a validator of stake s > 0, perHour is the floor of
\* TotalPerH * s / TotalStake and maxGasPower is the floor of
\* perHour * MaxGasPowerPeriod / 1h, calculated without any loss to an
\* overflow of the products.
C17_GasPowerPerHour ==
    (gas.pc = "ready" /\ gas.perH.validator # 0 /\ GasStake > 0) =>
        /\ gas.perH.perHour =
               (gas.dag.TotalPerH * GasStake) \div TotalStake(epochState.Validators)
        /\ gas.perH.maxGasPower =
               (gas.perH.perHour * gas.dag.MaxGasPowerPeriod) \div Hour

\* 250 of 1000 stake, 360000 per hour in total and a period of 10s: the
\* validator has 90000 per hour and at most 250, and the product of the
\* total and the stake does not fit a word
C17_Witness ==
    /\ gas.pc = "ready"
    /\ gas.perH.validator = 1
    /\ GasStake = 250
    /\ TotalStake(epochState.Validators) = 1000
    /\ gas.dag.TotalPerH = 360000
    /\ gas.dag.TotalPerH * GasStake >= Word
    /\ gas.dag.MaxGasPowerPeriod = 10
    /\ gas.perH.perHour = 90000
    /\ gas.perH.maxGasPower = 250

\* floor(perHour * StartupPeriod / 1h) of the validator whose gas power
\* per hour was calculated
GasStartupShare == (gas.perH.perHour * gas.dag.StartupPeriod) \div Hour

\* C18, as stated: for every creator, of whatever stake (stake 0 too),
\* startup is the maximum of floor(perHour * StartupPeriod / 1h) and
\* MinStartupGasPower, and so never below MinStartupGasPower.
C18_StartupAnyStake ==
    (gas.pc = "ready" /\ gas.perH.validator # 0) =>
        /\ gas.perH.startup =
               IF GasStartupShare < gas.dag.MinStartupGasPower
               THEN gas.dag.MinStartupGasPower ELSE GasStartupShare
        /\ gas.perH.startup >= gas.dag.MinStartupGasPower

\* C18: for every creator of stake s > 0, startup is the maximum of
\* floor(perHour * StartupPeriod / 1h) and MinStartupGasPower, and so never
\* below MinStartupGasPower; for a creator of stake 0, startup is 0, as
\* perHour and maxGasPower are.
C18_StartupGrant ==
    (gas.pc = "ready" /\ gas.perH.validator # 0) =>
        IF GasStake > 0
        THEN /\ gas.perH.startup =
                    IF GasStartupShare < gas.dag.MinStartupGasPower
                    THEN gas.dag.MinStartupGasPower ELSE GasStartupShare
             /\ gas.perH.startup >= gas.dag.MinStartupGasPower
        ELSE /\ gas.perH.startup = 0
             /\ gas.perH.perHour = 0
             /\ gas.perH.maxGasPower = 0

\* a validator of positive stake whose share for the startup period is
\* below the minimum is granted the minimum
C18_Witness ==
    /\ gas.pc = "ready"
    /\ gas.perH.validator # 0
    /\ GasStake > 0
    /\ GasStartupShare < gas.dag.MinStartupGasPower
    /\ gas.perH.startup = gas.dag.MinStartupGasPower

\* startup(creator) of the event whose gas power was calculated
GasStartup ==
    calcValidatorGasPowerPerH(epochState.Validators, gas.dag, gas.event.Creator).startup

\* the last header that the previous epoch recorded for the creator
GasLastHeader == epochState.PrevEpoch.LastHeaders[gas.event.Creator]

\* C19: the prior gas power left that CalcGasPower uses is the GasPowerLeft
\* of the self-parent when the event has one, not raised to startup; else
\* the maximum of the GasPowerLeft of the creator's last header of the
\* previous epoch and startup(creator), when there is such a header; else
\* startup(creator).
C19_PriorGasPowerLeft ==
    (gas.pc = "ready" /\ gas.power.done) =>
        gas.power.prevGasPowerLeft =
            IF gas.event.SelfParent # NoHeader
            THEN gas.event.SelfParent.GasPowerLeft
            ELSE IF GasLastHeader # NoHeader
            THEN IF GasLastHeader.GasPowerLeft >= GasStartup
                 THEN GasLastHeader.GasPowerLeft ELSE GasStartup
            ELSE GasStartup

\* an event whose self-parent has less gas power left than the startup,
\* while the last header of the previous epoch has more: the prior gas
\* power left is that of the self-parent
C19_Witness ==
    /\ gas.pc = "ready"
    /\ gas.power.done
    /\ gas.event.SelfParent # NoHeader
    /\ gas.event.SelfParent.GasPowerLeft < GasStartup
    /\ GasLastHeader # NoHeader
    /\ GasLastHeader.GasPowerLeft > GasStartup
    /\ gas.power.prevGasPowerLeft = gas.event.SelfParent.GasPowerLeft

\* perHour(creator) of the event whose gas power was calculated
GasPerHour ==
    calcValidatorGasPowerPerH(epochState.Validators, gas.dag, gas.event.Creator).perHour

\* the time elapsed between the self-parent and the event
GasElapsed == gas.event.ClaimedTime - gas.event.SelfParent.ClaimedTime

\* C20: the gas power allocated to an event since its self-parent is
\* floor(perHour(creator) * dt / 1h), where dt is the time elapsed between
\* the self-parent and the event.
C20_AllocatedByElapsedTime ==
    (gas.pc = "ready" /\ gas.power.done /\ gas.event.SelfParent # NoHeader) =>
        gas.power.gasPowerAllocated = (GasPerHour * GasElapsed) \div Hour

\* max(creator) of the event whose gas power was calculated
GasMax ==
    calcValidatorGasPowerPerH(epochState.Validators, gas.dag, gas.event.Creator).maxGasPower

\* C21: CalcGasPower returns the minimum of priorLeft + allocated and
\* max(creator), the sum being that of unbounded arithmetic: it does not
\* wrap around the word before it is compared with the cap.
C21_SumDoesNotWrap ==
    (gas.pc = "ready" /\ gas.power.done) =>
        gas.power.gasPower =
            IF gas.power.prevGasPowerLeft + gas.power.gasPowerAllocated > GasMax
            THEN GasMax
            ELSE gas.power.prevGasPowerLeft + gas.power.gasPowerAllocated

\* the GasPowerUsed of the stored events of the ids, summed as integers
RECURSIVE SpillSum(_)
SpillSum(ids) ==
    IF Len(ids) = 0 THEN 0
    ELSE spill.store[Head(ids)].GasPowerUsed + SpillSum(Tail(ids))

\* the last n events of the block that is handed to spillBlockEvents
SpillSuffix(n) == SubSeq(spill.Events, Len(spill.Events) - n + 1, Len(spill.Events))

\* the events left are within the limit, they are the longest suffix of
\* the block that is, the full events are aligned with them, and a block
\* within the limit is unchanged
SpillKeepsLongestSuffix ==
    /\ SpillSum(spill.out.Events) <= spill.BlockGasHardLimit
    /\ \E n \in 0..Len(spill.Events) :
          /\ spill.out.Events = SpillSuffix(n)
          /\ \A m \in 0..Len(spill.Events) :
                SpillSum(SpillSuffix(m)) <= spill.BlockGasHardLimit => m <= n
    /\ Len(spill.out.fullEvents) = Len(spill.out.Events)
    /\ \A i \in DOMAIN spill.out.Events :
          spill.out.fullEvents[i] = spill.store[spill.out.Events[i]]
    /\ SpillSum(spill.Events) <= spill.BlockGasHardLimit =>
          spill.out.Events = spill.Events

BlockEventsOf(creator) == {h \in blk.blockEvents : h.Creator = creator}

\* C23: no block holds more than MaxValidatorEventsInBlock events of the
\* same creator: isEventAllowedIntoBlock admits at most that many events of
\* a creator, seqDepth being 0 for the creator's highest confirmed event.
C23_CapPerCreator ==
    blk.pc = "ready" =>
        \A c \in BlockCreators :
            Cardinality(BlockEventsOf(c)) <= blk.MaxValidatorEventsInBlock

\* C24: restart equivalence.  An engine that decided by processing the
\* roots one by one, as they were connected, and is started again on its
\* store, decides by ProcessKnownRoots, and decides the same frame and
\* atropos; and what an engine decides after a restart is what an engine
\* that processed its roots one by one decides.
C24_RestartEquivalence ==
    [][/\ \A i \in Replicas :
            (/\ replicas[i].crashed
             /\ replicas[i].incremental # {}
             /\ replicas'[i] # replicas[i]) =>
                /\ replicas'[i].known # {}
                /\ replicas'[i].known = replicas[i].incremental
       /\ \A i \in Replicas, j \in Replicas :
            \A d \in replicas'[i].known, o \in replicas'[j].incremental : d = o]_vars

\* engine 1 connected the fork, decided root by root, was started again and
\* decided the same from its store; engine 2 was never started again and
\* decided the same root by root
C24_Witness ==
    /\ 5 \in replicas[1].events
    /\ replicas[1].restored
    /\ replicas[1].incremental = {[Frame |-> 1, Atropos |-> 1]}
    /\ replicas[1].known = replicas[1].incremental
    /\ ~replicas[2].restored
    /\ replicas[2].incremental = {[Frame |-> 1, Atropos |-> 1]}

KvLastOn(key) ==
    IF \A i \in DOMAIN kv.pending : kv.pending[i].key # key THEN 0
    ELSE CHOOSE i \in DOMAIN kv.pending :
            /\ kv.pending[i].key = key
            /\ \A j \in DOMAIN kv.pending : kv.pending[j].key = key => j <= i

\* C27: batches are all-or-nothing.  What is recorded in a batch, and a
\* Reset of it, leaves the database as it is; no reader gets anything but
\* what the database held when the lock was last released, so none sees a
\* batch half applied; when Write returns, every key of the batch's table
\* has the value of the last operation on it that was recorded since the
\* last Reset (none for a Delete), and every other key has the value it had.
C27_BatchAllOrNothing ==
    [][/\ kv.pc = "ready" =>
            /\ kv'.pending # kv.pending => kv'.db = kv.db
            /\ kv'.read # NoRead => kv'.read.value = kv'.read.stable
       /\ (kv.pc = "ready" /\ kv.next > 0 /\ kv'.next = 0) =>
            \A t \in KvTables, key \in KvKeys :
                MemGet(kv'.db, KvTable(t), key).value =
                    IF t = kv.batch /\ KvLastOn(key) # 0
                    THEN kv.pending[KvLastOn(key)].v
                    ELSE MemGet(kv.stable, KvTable(t), key).value]_vars

\* Write has applied the first of the two operations of a batch and holds
\* the lock: the database is not what it was, nor what it will be, and the
\* last read, of the key that is being written, got what it was
C27_Witness ==
    /\ kv.pc = "ready"
    /\ kv.lock = "writer"
    /\ Len(kv.writes) = MaxBatch
    /\ kv.next = MaxBatch
    /\ ~kv.pending[1].del /\ kv.pending[MaxBatch].del
    /\ kv.pending[1].key = kv.pending[MaxBatch].key
    /\ kv.db # kv.stable
    /\ kv.read.op = "Get"
    /\ kv.read.value = Nil
    /\ MemGet(kv.db, KvTable(kv.batch), kv.pending[1].key).value # Nil

\* C26: sub-tables are disjoint namespaces.  Of two tables of one database
\* that were obtained by different paths of prefixes, the database itself
\* and nested tables included, the one never gets, by Get, Has or ForEach,
\* a key that was put through the other, whatever the prefixes and keys.
C26_TablesDisjoint ==
    (kv.pc = "tables" /\ kv.read # NoRead) => ~kv.read.found

\* the events are equal in every field but Sign
SameButSign(e, f) == e.Seq = f.Seq /\ e.Creator = f.Creator

\* C28: the hash of an event is that of its encoding with the signature
\* emptied.  Two events equal in every field except Sign have the same
\* hash; SignBy does not change the value that Hash() returns; the
\* signature that SignBy makes and VerifySignature checks is over that hash:
\* a signed event is found valid exactly if it was signed with the key of
\* its creator.
C28_HashIgnoresSign ==
    [][inter.pc = "sign" =>
        /\ \A i \in EventSlots, j \in EventSlots :
              SameButSign(inter'.events[i], inter'.events[j]) =>
                  EventHash(inter'.events[i]).hash = EventHash(inter'.events[j]).hash
        /\ \A i \in EventSlots :
              (/\ inter'.events[i].Sign # inter.events[i].Sign
               /\ SameButSign(inter'.events[i], inter.events[i])) =>
                  EventHash(inter'.events[i]).hash = EventHash(inter.events[i]).hash
        /\ \A i \in EventSlots :
              /\ inter'.events[i].Sign # NoSign =>
                    inter'.events[i].Sign[3] = EventHash(inter'.events[i]).hash
              /\ inter'.verified[i] = "valid" =>
                    inter'.events[i].Sign[2] = inter'.events[i].Creator
              /\ inter'.verified[i] = "invalid" =>
                    \/ inter'.events[i].Sign = NoSign
                    \/ inter'.events[i].Sign[2] # inter'.events[i].Creator]_vars

\* an event was signed by its creator, sent and received; the other event,
\* equal but for the signature, was signed by someone else: the one is
\* found valid, the other not, and their hashes are the same
C28_Witness ==
    /\ inter.pc = "sign"
    /\ SameButSign(inter.events[1], inter.events[2])
    /\ inter.events[1].Sign # NoSign
    /\ inter.events[2].Sign # NoSign
    /\ inter.events[1].Sign # inter.events[2].Sign
    /\ inter.verified[1] = "valid"
    /\ inter.verified[2] = "invalid"
    /\ inter.events[1].hash = inter.events[2].hash

\* the events that the hashes in Parents name
SchemeParents(e) == {inter.events[h[1]][h[2]] : h \in e.Parents \ {SchemeZeroEvent}}
SchemeMaxLamport(e) ==
    IF SchemeParents(e) = {} THEN 0
    ELSE CHOOSE t \in {p.LamportTime : p \in SchemeParents(e)} :
             \A p \in SchemeParents(e) : p.LamportTime <= t

\* C29 as stated: every event built has Lamport time 1 + the maximum over
\* its parents, and Lamport time 0 if it has no parents
C29_ParentlessLamportZero ==
    inter.pc = "scheme" =>
        \A c \in SchemeCols : \A k \in 1..Len(inter.events[c]) :
            LET e == inter.events[c][k]
            IN  IF SchemeParents(e) = {} THEN e.LamportTime = 0
                ELSE e.LamportTime = 1 + SchemeMaxLamport(e)

\* C29, amended: every event built has Lamport time 1 + the maximum over
\* its parents, the maximum being 0 if it has no parents (its Lamport time
\* is then 1); so the Lamport time of an event is greater than that of
\* every parent of it
C29_LamportAboveParents ==
    inter.pc = "scheme" =>
        \A c \in SchemeCols : \A k \in 1..Len(inter.events[c]) :
            LET e == inter.events[c][k]
            IN  /\ e.LamportTime = 1 + SchemeMaxLamport(e)
                /\ \A p \in SchemeParents(e) : e.LamportTime > p.LamportTime

\* an event without parents has been built, and one whose other parent has
\* a greater Lamport time than its self-parent
C29_Witness ==
    /\ inter.pc = "scheme"
    /\ \E c \in SchemeCols : \E k \in 1..Len(inter.events[c]) :
          SchemeParents(inter.events[c][k]) = {}
    /\ \E c \in SchemeCols : \E k \in 1..Len(inter.events[c]) :
          LET e == inter.events[c][k]
          IN  /\ e.SelfParent # SchemeZeroEvent
              /\ \E p \in SchemeParents(e) :
                    p.LamportTime > inter.events[e.SelfParent[1]][e.SelfParent[2]].LamportTime

HeadsSettled ==
    /\ \A t \in Threads : pc[t] \notin {"engine", "index"}
    /\ epochState.EpochN = firstEpoch
    /\ ~crashed

\* C31: after any sequence of successful processEvent calls within an
\* epoch, the heads are exactly the stored events that are not a parent of
\* a stored event, and the heads kept with the IsHead check are the same set
C31_HeadsAreChildless ==
    HeadsSettled =>
        /\ gstore.heads =
              {e \in gstore.events : \A x \in gstore.events : e \notin EventParents(x)}
        /\ gstore.headsChecked = gstore.heads

\* events of two layers are stored, two of the second: the second of them
\* found its parents deleted from the heads already
C31_Witness ==
    /\ HeadsSettled
    /\ \A t \in Threads : pc[t] = "idle"
    /\ \E h \in gstore.heads : EventSeq(h) = 2
    /\ Cardinality({e \in gstore.events : EventSeq(e) = 2}) >= 2
    /\ \A e \in gstore.heads : EventSeq(e) # 1

\* the roots of the slots of the members in the frames frameToDecide+1 to
\* maxKnownFrame
KnownRootsInRange ==
    UNION {GetRoots(unit.events, frame, member) :
              frame \in (unit.el.frameToDecide + 1)..unit.maxKnownFrame,
              member \in DOMAIN unit.el.members}

\* C32: ProcessKnownRoots hands roots to ProcessRoot frame by frame,
\* ascending, from frameToDecide+1 to maxKnownFrame, slot by slot, every
\* root of a slot; it stops at the first root that yields a decision or an
\* error and returns that; when no root does, every root of every slot was
\* handed over and it returns (nil, nil); when maxKnownFrame <= frameToDecide
\* nothing is processed.
C32_KnownRootsInFrameOrder ==
    (unit.pc = "known roots" /\ unit.done) =>
        LET h == unit.res.handed
            n == Len(h)
            sameSlot(a, b) == DagFrames[a] = DagFrames[b] /\ DagCreator[a] = DagCreator[b]
        IN  /\ \A i \in 1..n : h[i].root \in KnownRootsInRange
            /\ \A i \in 1..n, j \in 1..n :
                  i < j => /\ h[i].root # h[j].root
                           /\ DagFrames[h[i].root] <= DagFrames[h[j].root]
                           /\ \A k \in i..j : sameSlot(h[i].root, h[j].root) =>
                                                    sameSlot(h[i].root, h[k].root)
            /\ \A i \in 1..(n - 1) : h[i].decided = NoRes /\ ~h[i].err
            /\ IF unit.res.decided # NoRes \/ unit.res.err
               THEN /\ n >= 1
                    /\ h[n].decided = unit.res.decided
                    /\ h[n].err = unit.res.err
                    /\ \A r \in KnownRootsInRange \ {h[i].root : i \in 1..n} :
                          DagFrames[r] >= DagFrames[h[n].root]
               ELSE /\ {h[i].root : i \in 1..n} = KnownRootsInRange
                    /\ \A i \in 1..n : h[i].decided = NoRes /\ ~h[i].err
            /\ unit.maxKnownFrame <= unit.el.frameToDecide =>
                  /\ n = 0
                  /\ unit.res.decided = NoRes /\ ~unit.res.err
                  /\ unit.res.el = unit.el

\* ProcessKnownRoots has returned a decision, after several roots that gave
\* none, with roots of the range left that it has not handed over
C32_Witness ==
    /\ unit.pc = "known roots" /\ unit.done
    /\ unit.res.decided # NoRes
    /\ Len(unit.res.handed) >= 5
    /\ KnownRootsInRange \ {unit.res.handed[i].root : i \in 1..Len(unit.res.handed)} # {}

\* the roots stored in the slot asked for that the root a forkless-causes
ObservedInSlot ==
    {b \in GetRoots(DagEvents, unit.bFrame, unit.bCreator) : ForklessCause(unit.a, b)}

\* C33: rootObservesRoot(a, creator, frame) returns a root b of the slot
\* (frame, creator) with ForklessCause(a, b), and nil exactly when there is
\* no such root in the slot; a root of another frame or creator is never
\* returned: when the iteration meets one, the process is ended.  Over a
\* consistent table the result is that of the function the election is
\* modelled with.
C33_ObservesRootOfSlot ==
    (unit.pc = "observes" /\ unit.done) =>
        /\ unit.res.crit =>
              /\ unit.stray # ZeroEvent
              /\ unit.res.bHash = ZeroEvent
        /\ ~unit.res.crit =>
              /\ unit.res.bHash # ZeroEvent => unit.res.bHash \in ObservedInSlot
              /\ unit.res.bHash = ZeroEvent <=> ObservedInSlot = {}
        /\ unit.stray = ZeroEvent =>
              /\ ~unit.res.crit
              /\ unit.res.bHash = rootObservesRoot(DagEvents, unit.a, unit.bCreator,
                                                    unit.bFrame, unit.order)

\* the slot holds two roots, forks of one another; the root a forkless-
\* causes the one visited second and that one is returned, although the
\* table holds a root of another slot that a forkless-causes as well
C33_Witness ==
    /\ unit.pc = "observes" /\ unit.done
    /\ Cardinality(GetRoots(DagEvents, unit.bFrame, unit.bCreator)) = 2
    /\ Len(unit.entries) = 3
    /\ unit.res.bHash = unit.entries[2].b
    /\ unit.stray # ZeroEvent
    /\ ForklessCause(unit.a, unit.stray)

\* the wrapper has returned from a Get, and the store is as it was then
WrapperGot == unit.pc = "wrapper" /\ unit.last.key # 0

TakenWith(id) == {t \in {unit.taken[i] : i \in DOMAIN unit.taken} : t.id = id}

MembersOf(el) == {m \in DOMAIN el.members : el.members[m] # 0}

\* C37: after every onFrameDecided and every onNewEpoch the election is that
\* of the frame after the last decided frame, its members are the current
\* validators, and it has no votes and no decided roots: notDecidedRoots
\* returns every member and its sanity check holds.
C37_ElectionResetToNextFrame ==
    [][DecidedStep \/ SealStep =>
        /\ election'.frameToDecide = checkpoint'.LastDecidedFrame + 1
        /\ election'.members = epochState'.Validators
        /\ election'.votes = {}
        /\ election'.decidedRoots = {}
        /\ notDecidedRoots(election') = MembersOf(election')
        /\ Cardinality(notDecidedRoots(election')) + Cardinality(election'.decidedRoots)
                = Cardinality(MembersOf(election'))]_vars

\* an engine that was started with votes cached for frame 2 has sealed the
\* epoch: the validators are new and the election is reset to them
C37_Witness ==
    /\ Len(seals) = 1
    /\ Len(decided) = 0
    /\ epochState.EpochN = firstEpoch + 1
    /\ epochState.Validators \notin InitValidators
    /\ epochState.PrevEpoch.Time = genesisTestTime + 1
    /\ election = Reset(epochState.Validators, firstFrame)
    /\ store.Checkpoint.LastDecidedFrame = 0

Survivors == spillBlockEvents(unit.Events, unit.store, unit.BlockGasHardLimit).fullEvents
RECURSIVE TxsOfEvents(_)
TxsOfEvents(es) == IF es = << >> THEN << >> ELSE unit.txs[Head(es).id] \o TxsOfEvents(Tail(es))
Assembled == unit.pc = "assemble" /\ unit.done /\ ~unit.out.crit

\* C39: assembleEvmBlock returns the events of the block that survive
\* spilling, once each and in the order of the block, and the transactions
\* of the EVM block are those of these events, in that order; a
\* transaction of several events has the position of the first of them.
C39_AssembledOnce ==
    Assembled =>
        LET sv == Survivors
        IN  /\ unit.out.blockEvents = sv
            /\ unit.out.Transactions = TxsOfEvents(sv)
            /\ \A tx \in Txs, i \in 1..Len(sv) :
                  (tx \in Range(unit.txs[sv[i].id])
                     /\ \A j \in 1..(i - 1) : tx \notin Range(unit.txs[sv[j].id]))
                  => unit.txPositions[tx].Event = sv[i].id

\* what holds of the events returned: the survivors, and the same again
AssembledTwice ==
    Assembled =>
        LET sv == Survivors
        IN  /\ unit.out.blockEvents = sv \o sv
            /\ unit.out.Events = [i \in 1..Len(sv) |-> sv[i].id]
            /\ unit.out.Transactions = TxsOfEvents(sv)
            /\ \A tx \in Txs, i \in 1..Len(sv) :
                  (tx \in Range(unit.txs[sv[i].id])
                     /\ \A j \in 1..(i - 1) : tx \notin Range(unit.txs[sv[j].id]))
                  => unit.txPositions[tx] =
                        [Event |-> sv[i].id,
                         EventOffset |-> FirstOffset(unit.txs[sv[i].id], tx) - 1]

\* a block of three events, the first spilled, the others with a
\* transaction in common
AssembledReached ==
    /\ Assembled
    /\ Len(unit.Events) = 3
    /\ Len(unit.out.Events) = 2
    /\ unit.txs[unit.out.Events[1]] = <<1>>
    /\ unit.txs[unit.out.Events[2]] = <<1, 2>>
    /\ Len(unit.out.blockEvents) = 4
    /\ unit.txPositions[1].Event = unit.out.Events[1]

\* C40: the gas power that CalcGasPower returns is at most max(creator),
\* whatever gas power is left from the self-parent or the previous epoch,
\* also when the startup is above max(creator); for a creator of stake 0
\* it is 0.
C40_GasPowerCapped ==
    (gas.pc = "ready" /\ gas.power.done) =>
        /\ gas.power.gasPower <= GasMax
        /\ epochState.Validators[gas.event.Creator] = 0 => gas.power.gasPower = 0

\* an event with no self-parent of a creator whose startup is above its
\* maximum: the gas power is the maximum
C40_Witness ==
    /\ gas.pc = "ready"
    /\ gas.power.done
    /\ gas.event.SelfParent = NoHeader
    /\ epochState.Validators[gas.event.Creator] > 0
    /\ GasStartup > GasMax
    /\ gas.power.prevGasPowerLeft > GasMax
    /\ gas.power.gasPower = GasMax
====
